---- MODULE Spec2Model ----
(***************************************************************************)
(* Colony simulation of 2327-roguelikedev: colonists, items, the job       *)
(* table and its scheduler, the per-colonist task executor, the grid       *)
(* pathfinder and the simulation clock.                                    *)
(*                                                                         *)
(* A position is a pair <<x, y>>.  Objects the JavaScript code refers to   *)
(* by identity are referred to by identifiers here: a colonist by its      *)
(* index in simulation.colonists, a room by its index in map.rooms, an     *)
(* item by the number of its id ("i" + n), a job by the number of its id.  *)
(* null / undefined are 0 for identifiers and tick numbers, NoPos for      *)
(* positions and "" for strings.                                           *)
(*                                                                         *)
(* A JavaScript throw is recorded in the field err of the world record:    *)
(* every statement after the throw is skipped (the operators below pass a  *)
(* world with err # "" through unchanged) and the main loop, which         *)
(* re-arms its timer only after simulate() returns, never ticks again.     *)
(***************************************************************************)
EXTENDS Integers, Sequences, FiniteSets, TLC

\* Bounds of the model
MaxTick == 800
MaxColonists == 2
MaxItems == 2
Horizon == 40
GridW == 3
MaxWalls == 2
MaxJobs == 3
MaxUITick == 50
MaxFurniture == 3

\* simulation.TICKS_PER_DAY
TICKS_PER_DAY == 600

NoPos == <<-1, -1>>

Pos(x, y) == <<x, y>>

ItemTypes == {"rawfood", "meal", "iron", "wood", "axe"}

\* roomCharacteristics[type].furnitureShape; hasShape is FALSE where the
\* JavaScript value is null (open).  Offsets are relative to the furniture.
NoShape == [hasShape |-> FALSE, name |-> "", priority |-> 0, ticks |-> 0, stand |-> NoPos, inputs |-> <<>>, output |-> "", sprites |-> <<>>, status |-> ""]

roomCharacteristics ==
  [ open |-> NoShape,
    farm |-> [hasShape |-> TRUE, name |-> "field", priority |-> 10, ticks |-> 30,
              stand |-> Pos(0, 0), inputs |-> <<>>, output |-> "rawfood",
              sprites |-> <<Pos(0, 0)>>, status |-> ""],
    kitchen |-> [hasShape |-> TRUE, name |-> "stove", priority |-> 11, ticks |-> 20,
              stand |-> Pos(0, 1),
              inputs |-> <<[type |-> "rawfood", pos |-> Pos(0, 0)]>>,
              output |-> "meal", sprites |-> <<Pos(0, 0)>>, status |-> ""],
    bedroom |-> [hasShape |-> TRUE, name |-> "bed", priority |-> 20, ticks |-> 160,
              stand |-> Pos(0, 0), inputs |-> <<>>, output |-> "",
              sprites |-> <<Pos(0, 0)>>, status |-> "sleepy"],
    dining |-> [hasShape |-> TRUE, name |-> "table", priority |-> 21, ticks |-> 20,
              stand |-> Pos(0, 1),
              inputs |-> <<[type |-> "meal", pos |-> Pos(0, 0)]>>,
              output |-> "", sprites |-> <<Pos(0, 0)>>, status |-> "hungry"],
    tool_shop |-> [hasShape |-> TRUE, name |-> "crafting", priority |-> 1, ticks |-> 60,
              stand |-> Pos(0, 1),
              inputs |-> <<[type |-> "iron", pos |-> Pos(-1, 0)],
                           [type |-> "wood", pos |-> Pos(0, -1)]>>,
              output |-> "axe", sprites |-> <<Pos(0, 0)>>, status |-> ""] ]

furnitureShape(room) == roomCharacteristics[room.type]

Offset(p, d) == Pos(p[1] + d[1], p[2] + d[2])

-----------------------------------------------------------------------------
(* The map.  The room generator is an external collaborator: the model     *)
(* draws the map from a small set of layouts, a row of rooms of 3 x 3      *)
(* interior tiles behind a one-tile-wide wilderness column, each room with *)
(* a door in its left wall.                                                *)

RoomRect(i) == [left |-> 1 + 4 * (i - 1), right |-> 5 + 4 * (i - 1), top |-> 0, bottom |-> 4]

DoorPos(i) == Pos(RoomRect(i).left, IF i % 2 = 1 THEN 1 ELSE 2)

WildernessTiles == {Pos(0, y) : y \in 0..3}

positionInRoom(room, pos) ==
  /\ room.rect.left + 1 <= pos[1] /\ pos[1] < room.rect.right
  /\ room.rect.top + 1 <= pos[2] /\ pos[2] < room.rect.bottom

InteriorTiles(rect) == {Pos(x, y) : x \in (rect.left + 1)..(rect.right - 1), y \in (rect.top + 1)..(rect.bottom - 1)}

\* the walkable tiles unlockRoom adds for room i: its interior, and the doors
\* that touch it (its own left door and the left door of the room to its right)
UnlockedTiles(i, n) ==
  InteriorTiles(RoomRect(i)) \cup {DoorPos(i)} \cup (IF i < n THEN {DoorPos(i + 1)} ELSE {})

\* A layout names, per room, its type, whether it starts unlocked and how
\* many pieces of furniture it starts with: the first at
\* (rect.left + 2, rect.top + 1), a second one to its left.
R(type, unlocked, furnished) == [type |-> type, unlocked |-> unlocked, furnished |-> furnished]

Layouts ==
  { << R("farm", TRUE, 1), R("kitchen", TRUE, 1), R("dining", TRUE, 1) >>,
    << R("kitchen", TRUE, 1), R("farm", TRUE, 1), R("bedroom", TRUE, 1) >>,
    << R("bedroom", TRUE, 1), R("dining", TRUE, 1), R("farm", TRUE, 1) >>,
    << R("farm", TRUE, 1), R("farm", TRUE, 1), R("kitchen", TRUE, 1) >>,
    << R("bedroom", TRUE, 1), R("farm", TRUE, 1), R("open", TRUE, 0) >>,
    << R("kitchen", TRUE, 1), R("farm", TRUE, 1), R("dining", FALSE, 0) >>,
    << R("farm", TRUE, 2), R("kitchen", TRUE, 1), R("bedroom", TRUE, 2) >>,
    << R("farm", TRUE, 1), R("kitchen", TRUE, 1), R("open", TRUE, 0) >>,
    << R("dining", TRUE, 1), R("kitchen", TRUE, 2), R("farm", TRUE, 2) >> }

InitialRooms(layout) ==
  [i \in 1..Len(layout) |->
     [type |-> layout[i].type, rect |-> RoomRect(i), unlocked |-> layout[i].unlocked,
      furniture |-> [k \in 1..layout[i].furnished |->
                       Pos(RoomRect(i).left + 3 - k, RoomRect(i).top + 1)]]]

InitialWalkable(layout) ==
  WildernessTiles \cup UNION {IF layout[i].unlocked THEN UnlockedTiles(i, Len(layout)) ELSE {} : i \in 1..Len(layout)}

-----------------------------------------------------------------------------
(* Pathfinding *)

DIRS1 == << <<-1, 0>>, <<0, 1>>, <<1, 0>>, <<0, -1>> >>

DIRS2 == << <<0, -1>>, <<1, 0>>, <<0, 1>>, <<-1, 0>> >>

\* the inner loop of breadthFirstSearch over the four neighbours of pos;
\* acc.came is came_from (its domain is the set of keys of cost_so_far),
\* acc.nxt is fringes[k+1]
RECURSIVE bfsNeighbors(_, _, _, _, _)
bfsNeighbors(walkable, pos, dirs, i, acc) ==
  IF i > Len(dirs) THEN acc
  ELSE LET neighbor == Offset(pos, dirs[i])
       IN bfsNeighbors(walkable, pos, dirs, i + 1,
            IF neighbor \notin DOMAIN acc.came /\ neighbor \in walkable
            THEN [came |-> (neighbor :> pos) @@ acc.came, nxt |-> Append(acc.nxt, neighbor)]
            ELSE acc)

\* the loop over the positions of fringes[k], from index i on
RECURSIVE bfsFringe(_, _, _, _, _)
bfsFringe(walkable, goal, fringe, i, acc) ==
  IF i > Len(fringe) THEN [found |-> FALSE, came |-> acc.came, nxt |-> acc.nxt]
  ELSE IF fringe[i] = goal THEN [found |-> TRUE, came |-> acc.came, nxt |-> acc.nxt]
  ELSE bfsFringe(walkable, goal, fringe, i + 1,
         bfsNeighbors(walkable, fringe[i],
                      IF (fringe[i][1] + fringe[i][2]) % 2 = 0 THEN DIRS1 ELSE DIRS2, 1, acc))

\* the loop over k; found = FALSE is the throw "Path not found"
RECURSIVE bfsLoop(_, _, _, _)
bfsLoop(walkable, goal, fringe, came) ==
  IF Len(fringe) = 0 THEN [found |-> FALSE, came |-> came]
  ELSE LET r == bfsFringe(walkable, goal, fringe, 1, [came |-> came, nxt |-> <<>>])
       IN IF r.found THEN [found |-> TRUE, came |-> r.came]
          ELSE bfsLoop(walkable, goal, r.nxt, r.came)

breadthFirstSearch(walkable, start, goal) == bfsLoop(walkable, goal, <<start>>, (start :> NoPos))

RECURSIVE tracePath(_, _, _, _)
tracePath(came, start, current, path) ==
  IF current = start THEN path
  ELSE tracePath(came, start, came[current], Append(path, current))

\* mutant: the tile next to the start is left off the path
findPath_omitsFirstStep(walkable, start, goal) ==
  LET bfs == breadthFirstSearch(walkable, start, goal)
      path == tracePath(bfs.came, start, goal, <<>>)
  IN IF bfs.found THEN [ok |-> TRUE, path |-> SubSeq(path, 1, Len(path) - 1)]
     ELSE [ok |-> FALSE, path |-> <<>>]

\* mutant: the path is returned in walking order, the goal last
findPath_walkingOrder(walkable, start, goal) ==
  LET bfs == breadthFirstSearch(walkable, start, goal)
      path == tracePath(bfs.came, start, goal, <<>>)
  IN IF bfs.found THEN [ok |-> TRUE, path |-> [i \in 1..Len(path) |-> path[Len(path) + 1 - i]]]
     ELSE [ok |-> FALSE, path |-> <<>>]

\* mutant: the start tile is pushed onto the path as well
findPath_includesStart(walkable, start, goal) ==
  LET bfs == breadthFirstSearch(walkable, start, goal)
  IN IF bfs.found THEN [ok |-> TRUE, path |-> Append(tracePath(bfs.came, start, goal, <<>>), start)]
     ELSE [ok |-> FALSE, path |-> <<>>]

\* ok = FALSE: breadthFirstSearch threw (findPath has no handler, and its
\* "if (!bfs)" branch is never taken because breadthFirstSearch never returns
\* a falsy value).  path is in the order of the JavaScript array: goal first,
\* the tile next to start last.
findPath(walkable, start, goal) ==
  LET bfs == breadthFirstSearch(walkable, start, goal)
  IN IF bfs.found THEN [ok |-> TRUE, path |-> tracePath(bfs.came, start, goal, <<>>)]
     ELSE [ok |-> FALSE, path |-> <<>>]

-----------------------------------------------------------------------------
(* Items.  An item is [id, type, on, pos, c]: on = "ground" with pos its   *)
(* tile, or on = "colonist" with c the colonist carrying it.  An item that *)
(* is not in map.items (destroyed) has pos = null, on = "null".            *)

Throw(w, msg) == IF w.err = "" THEN [w EXCEPT !.err = msg] ELSE w

NullLoc == [on |-> "null", pos |-> NoPos, c |-> 0]

RECURSIVE itemIndex(_, _, _)
itemIndex(items, id, i) ==
  IF i > Len(items) THEN 0
  ELSE IF items[i].id = id THEN i
  ELSE itemIndex(items, id, i + 1)

\* item.pos of the item object with this id
itemLoc(items, id) ==
  LET i == itemIndex(items, id, 1)
  IN IF i = 0 THEN NullLoc ELSE [on |-> items[i].on, pos |-> items[i].pos, c |-> items[i].c]

isItemPosOnGround(loc) == loc.on = "ground"

\* the id of the first item of map.items lying on the tile, 0 for null
RECURSIVE findItemOnTileFrom(_, _, _)
findItemOnTileFrom(items, pos, i) ==
  IF i > Len(items) THEN 0
  ELSE IF isItemPosOnGround(items[i]) /\ items[i].pos = pos THEN items[i].id
  ELSE findItemOnTileFrom(items, pos, i + 1)

findItemOnTile(items, pos) == findItemOnTileFrom(items, pos, 1)

\* mutant: the type is not looked at
findItemsOfType_anyType(items, type) == items

\* the sequence of the items of a type, in map.items order
findItemsOfType(items, type) == SelectSeq(items, LAMBDA item : item.type = type)

RemoveAt(seq, i) == SubSeq(seq, 1, i - 1) \o SubSeq(seq, i + 1, Len(seq))

\* mutant: the inventory is not looked at, the new item replaces what the
\* colonist holds
itemCreate_overwrites(w, type, c) ==
  IF w.err # "" THEN w
  ELSE [w EXCEPT !.nextItemId = @ + 1,
                 !.items = Append(@, [id |-> w.nextItemId + 1, type |-> type,
                                      on |-> "colonist", pos |-> NoPos, c |-> c]),
                 !.colonists[c].inventory = w.nextItemId + 1]

\* the new item's id is w.nextItemId of the result
itemCreate(w, type, c) ==
  IF w.err # "" THEN w
  ELSE IF w.colonists[c].inventory # 0
  THEN Throw(w, "Can't create item, colonist inventory not empty")
  ELSE [w EXCEPT !.nextItemId = @ + 1,
                 !.items = Append(@, [id |-> w.nextItemId + 1, type |-> type,
                                      on |-> "colonist", pos |-> NoPos, c |-> c]),
                 !.colonists[c].inventory = w.nextItemId + 1]

\* mutant: the item is marked destroyed but never spliced out of map.items
itemDestroy_keepsItem(w, id) ==
  IF w.err # "" THEN w
  ELSE IF id = 0 THEN Throw(w, "TypeError: item is null")
  ELSE IF ~isItemPosOnGround(itemLoc(w.items, id))
  THEN Throw(w, "Can't destroy item unless on the ground")
  ELSE [w EXCEPT !.items[itemIndex(w.items, id, 1)] = [@ EXCEPT !.on = "null", !.pos = NoPos, !.c = 0]]

\* id = 0 is a null argument: reading item.pos raises a TypeError
itemDestroy(w, id) ==
  IF w.err # "" THEN w
  ELSE IF id = 0 THEN Throw(w, "TypeError: item is null")
  ELSE IF ~isItemPosOnGround(itemLoc(w.items, id))
  THEN Throw(w, "Can't destroy item unless on the ground")
  ELSE [w EXCEPT !.items = RemoveAt(@, itemIndex(w.items, id, 1))]

\* mutant: the item is handed to the colonist but the inventory slot is not set
itemPickUp_forgetsInventory(w, c, id) ==
  LET pos == itemLoc(w.items, id)
      i == itemIndex(w.items, id, 1)
  IN IF w.err # "" THEN w
     ELSE IF isItemPosOnGround(pos) /\ w.colonists[c].pos # pos.pos
     THEN Throw(w, "Can't pick up item, not where colonist is")
     ELSE IF w.colonists[c].inventory # 0
     THEN Throw(w, "Can't pick up item, colonist inventory not empty")
     ELSE [w EXCEPT !.items[i] = [@ EXCEPT !.on = "colonist", !.pos = NoPos, !.c = c]]

itemPickUp(w, c, id) ==
  LET pos == itemLoc(w.items, id)
      i == itemIndex(w.items, id, 1)
  IN IF w.err # "" THEN w
     ELSE IF isItemPosOnGround(pos) /\ w.colonists[c].pos # pos.pos
     THEN Throw(w, "Can't pick up item, not where colonist is")
     ELSE IF w.colonists[c].inventory # 0
     THEN Throw(w, "Can't pick up item, colonist inventory not empty")
     ELSE [w EXCEPT !.items[i] = [@ EXCEPT !.on = "colonist", !.pos = NoPos, !.c = c],
                    !.colonists[c].inventory = id]

\* mutant: the tile under the colonist is not looked at
itemDrop_ignoresTile(w, c, id) ==
  LET pos == itemLoc(w.items, id)
      i == itemIndex(w.items, id, 1)
  IN IF w.err # "" THEN w
     ELSE IF ~(pos.on = "colonist" /\ pos.c = c)
     THEN Throw(w, "Can't drop item that's not carried")
     ELSE [w EXCEPT !.items[i] = [@ EXCEPT !.on = "ground", !.pos = w.colonists[c].pos, !.c = 0],
                    !.colonists[c].inventory = 0]

itemDrop(w, c, id) ==
  LET pos == itemLoc(w.items, id)
      i == itemIndex(w.items, id, 1)
  IN IF w.err # "" THEN w
     ELSE IF ~(pos.on = "colonist" /\ pos.c = c)
     THEN Throw(w, "Can't drop item that's not carried")
     ELSE IF findItemOnTile(w.items, w.colonists[c].pos) # 0
     THEN Throw(w, "Can't drop item because tile occupied")
     ELSE [w EXCEPT !.items[i] = [@ EXCEPT !.on = "ground", !.pos = w.colonists[c].pos, !.c = 0],
                    !.colonists[c].inventory = 0]

-----------------------------------------------------------------------------
(* Jobs.  A row of jobs.table is [id, type, room, furniture, colonist,     *)
(* item, dest, stand, timeCompleted].                                      *)

\* Array.prototype.find over the table: the index of the first of the rows
\* that satisfy the test, 0 for undefined; found is the set of the indices
\* of the rows that satisfy it
findJob(found) == IF found = {} THEN 0 ELSE CHOOSE i \in found : \A j \in found : i <= j

lookupDest(table, dest) == findJob({i \in 1..Len(table) : table[i].dest = dest})

\* mutant: no row is ever found by its stand
lookupStand_none(table, stand) == 0

lookupStand(table, stand) == findJob({i \in 1..Len(table) : table[i].stand # NoPos /\ table[i].stand = stand})

lookupItem(table, item) == findJob({i \in 1..Len(table) : table[i].item = item})

lookupColonist(table, colonist) == findJob({i \in 1..Len(table) : table[i].colonist = colonist})

\* mutant: the item is handed to the colonist as the job is created
addTransportJob_takesItem(w, room, furniture, colonist, item, dest) ==
  [w EXCEPT !.colonists[colonist].path = <<>>,
            !.colonists[colonist].inventory = item,
            !.items[itemIndex(w.items, item, 1)] = [@ EXCEPT !.on = "colonist", !.pos = NoPos, !.c = colonist],
            !.jobId = @ + 1,
            !.table = Append(@, [id |-> w.jobId + 1, type |-> "transport", room |-> room,
                                 furniture |-> furniture, colonist |-> colonist, item |-> item,
                                 dest |-> dest, stand |-> NoPos, timeCompleted |-> 0])]

addTransportJob(w, room, furniture, colonist, item, dest) ==
  [w EXCEPT !.colonists[colonist].path = <<>>,
            !.jobId = @ + 1,
            !.table = Append(@, [id |-> w.jobId + 1, type |-> "transport", room |-> room,
                                 furniture |-> furniture, colonist |-> colonist, item |-> item,
                                 dest |-> dest, stand |-> NoPos, timeCompleted |-> 0])]

\* mutant: the colonist keeps the path it has
addProductionJob_keepsPath(w, room, furniture, colonist, stand, dest) ==
  [w EXCEPT !.jobId = @ + 1,
            !.table = Append(@, [id |-> w.jobId + 1, type |-> "production", room |-> room,
                                 furniture |-> furniture, colonist |-> colonist, item |-> 0,
                                 dest |-> dest, stand |-> stand, timeCompleted |-> 0])]

addProductionJob(w, room, furniture, colonist, stand, dest) ==
  [w EXCEPT !.colonists[colonist].path = <<>>,
            !.jobId = @ + 1,
            !.table = Append(@, [id |-> w.jobId + 1, type |-> "production", room |-> room,
                                 furniture |-> furniture, colonist |-> colonist, item |-> 0,
                                 dest |-> dest, stand |-> stand, timeCompleted |-> 0])]

\* mutant: the last row of the table is spliced out, whichever job is given
deleteJob_removesLast(w, id) ==
  IF w.err # "" THEN w
  ELSE IF Len(w.table) = 0 THEN Throw(w, "Deleting job not in table")
  ELSE [w EXCEPT !.table = RemoveAt(@, Len(w.table))]

\* the job object is named by its id
deleteJob(w, id) ==
  LET index == findJob({i \in 1..Len(w.table) : w.table[i].id = id})
  IN IF w.err # "" THEN w
     ELSE IF index = 0 THEN Throw(w, "Deleting job not in table")
     ELSE [w EXCEPT !.table = RemoveAt(@, index)]

-----------------------------------------------------------------------------
(* Rooms and furniture *)

positionsOccupiedByFurniture(room, pos) ==
  LET shape == furnitureShape(room)
  IN IF shape.hasShape
     THEN {Offset(pos, shape.stand)}
          \cup {Offset(pos, shape.inputs[i].pos) : i \in 1..Len(shape.inputs)}
          \cup {Offset(pos, shape.sprites[i]) : i \in 1..Len(shape.sprites)}
     ELSE {}

\* mutant: tiles that hold an item are not skipped
RECURSIVE openTileInColumn_ignoresItems(_, _, _, _, _)
openTileInColumn_ignoresItems(w, room, occupied, x, y) ==
  IF ~(y > room.rect.top) THEN NoPos
  ELSE IF lookupDest(w.table, Pos(x, y)) # 0 THEN openTileInColumn_ignoresItems(w, room, occupied, x, y - 1)
  ELSE IF Pos(x, y) \in occupied THEN openTileInColumn_ignoresItems(w, room, occupied, x, y - 1)
  ELSE Pos(x, y)

\* mutant: tiles that are the destination of a job are not skipped
RECURSIVE openTileInColumn_ignoresJobs(_, _, _, _, _)
openTileInColumn_ignoresJobs(w, room, occupied, x, y) ==
  IF ~(y > room.rect.top) THEN NoPos
  ELSE IF findItemOnTile(w.items, Pos(x, y)) # 0 THEN openTileInColumn_ignoresJobs(w, room, occupied, x, y - 1)
  ELSE IF Pos(x, y) \in occupied THEN openTileInColumn_ignoresJobs(w, room, occupied, x, y - 1)
  ELSE Pos(x, y)

\* the inner loop of findOpenOutputTile over y, for column x
RECURSIVE openTileInColumn(_, _, _, _, _)
openTileInColumn(w, room, occupied, x, y) ==
  IF ~(y > room.rect.top) THEN NoPos
  ELSE IF findItemOnTile(w.items, Pos(x, y)) # 0 THEN openTileInColumn(w, room, occupied, x, y - 1)
  ELSE IF lookupDest(w.table, Pos(x, y)) # 0 THEN openTileInColumn(w, room, occupied, x, y - 1)
  ELSE IF Pos(x, y) \in occupied THEN openTileInColumn(w, room, occupied, x, y - 1)
  ELSE Pos(x, y)

\* the outer loop over x
RECURSIVE openTileFrom(_, _, _, _)
openTileFrom(w, room, occupied, x) ==
  IF ~(x > room.rect.left) THEN NoPos
  ELSE LET pos == openTileInColumn(w, room, occupied, x, room.rect.bottom - 1)
       IN IF pos # NoPos THEN pos ELSE openTileFrom(w, room, occupied, x - 1)

\* NoPos for null
findOpenOutputTile(w, room) ==
  openTileFrom(w, room,
               UNION {positionsOccupiedByFurniture(room, room.furniture[i]) : i \in 1..Len(room.furniture)},
               room.rect.right - 1)

-----------------------------------------------------------------------------
(* Colonist.simulate.  A colonist is [pos, path, status, inventory]; path  *)
(* is in the order of the JavaScript array (pop() takes its last element). *)

\* this.path = findPath(map, this.pos, goal)
setPath(w, c, goal) ==
  LET r == findPath(w.walkable, w.colonists[c].pos, goal)
  IN IF w.err # "" THEN w
     ELSE IF r.ok THEN [w EXCEPT !.colonists[c].path = r.path]
     ELSE Throw(w, "Path not found - should never happen")

\* mutant: at the destination the job is deleted but the item is not dropped
transportTurn_keepsItem(w, c, job) ==
  LET me == w.colonists[c]
      itemPos == itemLoc(w.items, job.item)
  IN IF me.inventory # 0
     THEN IF me.pos # job.dest THEN Throw(w, "1 Should be at dest by now")
          ELSE deleteJob(w, job.id)
     ELSE IF ~isItemPosOnGround(itemPos) THEN Throw(w, "item should be on ground")
     ELSE IF me.pos = itemPos.pos THEN setPath(itemPickUp(w, c, job.item), c, job.dest)
     ELSE setPath(w, c, itemPos.pos)

\* mutant: after picking the item up the colonist computes no path to the
\* destination
transportTurn_staysAtItem(w, c, job) ==
  LET me == w.colonists[c]
      itemPos == itemLoc(w.items, job.item)
  IN IF me.inventory # 0
     THEN IF me.pos # job.dest THEN Throw(w, "1 Should be at dest by now")
          ELSE deleteJob(itemDrop(w, c, me.inventory), job.id)
     ELSE IF ~isItemPosOnGround(itemPos) THEN Throw(w, "item should be on ground")
     ELSE IF me.pos = itemPos.pos THEN itemPickUp(w, c, job.item)
     ELSE setPath(w, c, itemPos.pos)

\* the branch job.type === 'transport'
transportTurn(w, c, job) ==
  LET me == w.colonists[c]
      itemPos == itemLoc(w.items, job.item)
  IN IF me.inventory # 0
     THEN IF me.pos # job.dest THEN Throw(w, "1 Should be at dest by now")
          ELSE deleteJob(itemDrop(w, c, me.inventory), job.id)
     ELSE IF ~isItemPosOnGround(itemPos) THEN Throw(w, "item should be on ground")
     ELSE IF me.pos = itemPos.pos THEN setPath(itemPickUp(w, c, job.item), c, job.dest)
     ELSE setPath(w, c, itemPos.pos)

\* for (let input of furnitureShape.inputs) itemDestroy(findItemOnTile(...))
RECURSIVE destroyInputs(_, _, _, _)
destroyInputs(w, furniture, inputs, i) ==
  IF i > Len(inputs) \/ w.err # "" THEN w
  ELSE destroyInputs(itemDestroy(w, findItemOnTile(w.items, Offset(furniture, inputs[i].pos))),
                     furniture, inputs, i + 1)

\* mutant: no path to the destination is computed
productionFinish_noWalk(w, c, ji) ==
  LET job == w.table[ji]
      shape == furnitureShape(w.rooms[job.room])
      w1 == [w EXCEPT !.table[ji].timeCompleted = 0]
      w2 == destroyInputs(w1, job.furniture, shape.inputs, 1)
      w3 == IF w2.err = "" /\ shape.status # ""
            THEN [w2 EXCEPT !.colonists[c].status[shape.status] = FALSE] ELSE w2
      created == itemCreate(w3, shape.output, job.colonist)
  IN IF w3.err # "" THEN w3
     ELSE IF shape.output # ""
     THEN IF job.item # 0 THEN Throw(w3, "Production job shouldn't already have an item")
          ELSE IF created.err # "" THEN created
          ELSE [created EXCEPT !.table[ji].item = created.nextItemId]
     ELSE deleteJob(w3, job.id)

\* mutant: the input items are left where they are
productionFinish_keepsInputs(w, c, ji) ==
  LET job == w.table[ji]
      shape == furnitureShape(w.rooms[job.room])
      w1 == [w EXCEPT !.table[ji].timeCompleted = 0]
      w3 == IF shape.status # ""
            THEN [w1 EXCEPT !.colonists[c].status[shape.status] = FALSE] ELSE w1
      created == itemCreate(w3, shape.output, job.colonist)
      w4 == IF w3.err # "" THEN w3
            ELSE IF shape.output # ""
            THEN IF job.item # 0 THEN Throw(w3, "Production job shouldn't already have an item")
                 ELSE IF created.err # "" THEN created
                 ELSE [created EXCEPT !.table[ji].item = created.nextItemId]
            ELSE deleteJob(w3, job.id)
  IN setPath(w4, c, job.dest)

\* the branch simulation.tickId >= job.timeCompleted; ji is the job's row
productionFinish(w, c, ji) ==
  LET job == w.table[ji]
      shape == furnitureShape(w.rooms[job.room])
      w1 == [w EXCEPT !.table[ji].timeCompleted = 0]
      w2 == destroyInputs(w1, job.furniture, shape.inputs, 1)
      w3 == IF w2.err = "" /\ shape.status # ""
            THEN [w2 EXCEPT !.colonists[c].status[shape.status] = FALSE] ELSE w2
      created == itemCreate(w3, shape.output, job.colonist)
      w4 == IF w3.err # "" THEN w3
            ELSE IF shape.output # ""
            THEN IF job.item # 0 THEN Throw(w3, "Production job shouldn't already have an item")
                 ELSE IF created.err # "" THEN created
                 ELSE [created EXCEPT !.table[ji].item = created.nextItemId]
            ELSE deleteJob(w3, job.id)
  IN setPath(w4, c, job.dest)

\* mutant: the duration is counted from the next tick
productionTurn_countsFromNext(w, c, ji) ==
  LET me == w.colonists[c]
      job == w.table[ji]
      shape == furnitureShape(w.rooms[job.room])
  IN IF me.inventory # 0
     THEN IF me.pos # job.dest THEN Throw(w, "2 Should be at dest by now")
          ELSE deleteJob(itemDrop(w, c, me.inventory), job.id)
     ELSE IF me.pos # job.stand THEN setPath(w, c, job.stand)
     ELSE IF job.timeCompleted = 0
     THEN [w EXCEPT !.table[ji].timeCompleted = w.tickId + shape.ticks + 1]
     ELSE IF w.tickId >= job.timeCompleted THEN productionFinish(w, c, ji)
     ELSE w

\* mutant: the production finishes only after the completion tick has passed
productionTurn_late(w, c, ji) ==
  LET me == w.colonists[c]
      job == w.table[ji]
      shape == furnitureShape(w.rooms[job.room])
  IN IF me.inventory # 0
     THEN IF me.pos # job.dest THEN Throw(w, "2 Should be at dest by now")
          ELSE deleteJob(itemDrop(w, c, me.inventory), job.id)
     ELSE IF me.pos # job.stand THEN setPath(w, c, job.stand)
     ELSE IF job.timeCompleted = 0
     THEN [w EXCEPT !.table[ji].timeCompleted = w.tickId + shape.ticks]
     ELSE IF w.tickId > job.timeCompleted THEN productionFinish(w, c, ji)
     ELSE w

\* the branch job.type === 'production'
productionTurn(w, c, ji) ==
  LET me == w.colonists[c]
      job == w.table[ji]
      shape == furnitureShape(w.rooms[job.room])
  IN IF me.inventory # 0
     THEN IF me.pos # job.dest THEN Throw(w, "2 Should be at dest by now")
          ELSE deleteJob(itemDrop(w, c, me.inventory), job.id)
     ELSE IF me.pos # job.stand THEN setPath(w, c, job.stand)
     ELSE IF job.timeCompleted = 0
     THEN [w EXCEPT !.table[ji].timeCompleted = w.tickId + shape.ticks]
     ELSE IF w.tickId >= job.timeCompleted THEN productionFinish(w, c, ji)
     ELSE w

\* mutant: the colonist takes a step in every other tick only
colonistSimulate_everyOtherTick(w, c) ==
  LET me == w.colonists[c]
      ji == lookupColonist(w.table, c)
  IN IF w.err # "" THEN w
     ELSE IF Len(me.path) > 0
     THEN IF w.tickId % 2 = 0
          THEN [w EXCEPT !.colonists[c].pos = me.path[Len(me.path)],
                         !.colonists[c].path = SubSeq(me.path, 1, Len(me.path) - 1)]
          ELSE w
     ELSE IF ji = 0 THEN w
     ELSE IF w.table[ji].type = "transport" THEN transportTurn(w, c, w.table[ji])
     ELSE IF w.table[ji].type = "production" THEN productionTurn(w, c, ji)
     ELSE w

\* mutant: the colonist takes one step and forgets the rest of its path
colonistSimulate_dropsPath(w, c) ==
  LET me == w.colonists[c]
      ji == lookupColonist(w.table, c)
  IN IF w.err # "" THEN w
     ELSE IF Len(me.path) > 0
     THEN [w EXCEPT !.colonists[c].pos = me.path[Len(me.path)],
                    !.colonists[c].path = <<>>]
     ELSE IF ji = 0 THEN w
     ELSE IF w.table[ji].type = "transport" THEN transportTurn(w, c, w.table[ji])
     ELSE IF w.table[ji].type = "production" THEN productionTurn(w, c, ji)
     ELSE w

\* mutant: no return after the step, the colonist goes on with its job
colonistSimulate_fallsThrough(w, c) ==
  LET me == w.colonists[c]
      moved == IF Len(me.path) > 0
               THEN [w EXCEPT !.colonists[c].pos = me.path[Len(me.path)],
                              !.colonists[c].path = SubSeq(me.path, 1, Len(me.path) - 1)]
               ELSE w
      ji == lookupColonist(w.table, c)
  IN IF w.err # "" THEN w
     ELSE IF ji = 0 THEN moved
     ELSE IF w.table[ji].type = "transport" THEN transportTurn(moved, c, w.table[ji])
     ELSE IF w.table[ji].type = "production" THEN productionTurn(moved, c, ji)
     ELSE moved

colonistSimulate(w, c) ==
  LET me == w.colonists[c]
      ji == lookupColonist(w.table, c)
  IN IF w.err # "" THEN w
     ELSE IF Len(me.path) > 0
     THEN [w EXCEPT !.colonists[c].pos = me.path[Len(me.path)],
                    !.colonists[c].path = SubSeq(me.path, 1, Len(me.path) - 1)]
     ELSE IF ji = 0 THEN w
     ELSE IF w.table[ji].type = "transport" THEN transportTurn(w, c, w.table[ji])
     ELSE IF w.table[ji].type = "production" THEN productionTurn(w, c, ji)
     ELSE w

-----------------------------------------------------------------------------
(* jobs.simulate *)

priority(room) == roomCharacteristics[room.type].priority

\* mutant: the rooms are scanned in map order, not by priority
sortedRooms_mapOrder(rooms) == [k \in 1..Len(rooms) |-> k]

\* [...map.rooms].sort(higher priority earlier): Array.prototype.sort is
\* stable, so rooms of equal priority keep their map order.  The result is
\* the sequence of room indices.
sortedRooms(rooms) ==
  LET before(j, i) == \/ priority(rooms[j]) > priority(rooms[i])
                      \/ priority(rooms[j]) = priority(rooms[i]) /\ j < i
      rank(i) == 1 + Cardinality({j \in 1..Len(rooms) : before(j, i)})
  IN [k \in 1..Len(rooms) |-> CHOOSE i \in 1..Len(rooms) : rank(i) = k]

\* a room with furniture whose type has no furniture shape: reading
\* furnitureShape.inputs of null raises a TypeError
ShapelessFurniture(rooms) ==
  \E r \in 1..Len(rooms) : Len(rooms[r].furniture) > 0 /\ ~furnitureShape(rooms[r]).hasShape

furnitureInputPositions(rooms) ==
  UNION {UNION {{Offset(rooms[r].furniture[f], furnitureShape(rooms[r]).inputs[i].pos) :
                   i \in 1..Len(furnitureShape(rooms[r]).inputs)} :
                f \in 1..Len(rooms[r].furniture)} :
         r \in 1..Len(rooms)}

candidate(room, furniture, input, status) == [room |-> room, furniture |-> furniture, input |-> input, status |-> status]

pushCandidate(w, room, furniture, input, status) ==
  [w EXCEPT !.candidates = Append(@, candidate(room, furniture, input, status))]

\* mutant: the last colonist that qualifies is taken
RECURSIVE findColonist_latest(_, _, _)
findColonist_latest(w, status, c) ==
  IF c > Len(w.colonists) THEN 0
  ELSE IF findColonist_latest(w, status, c + 1) # 0 THEN findColonist_latest(w, status, c + 1)
  ELSE IF lookupColonist(w.table, c) # 0 THEN 0
  ELSE IF status # "" /\ ~w.colonists[c].status[status] THEN 0
  ELSE c

\* mutant: the status the shape needs is not looked at
RECURSIVE findColonist_ignoresStatus(_, _, _)
findColonist_ignoresStatus(w, status, c) ==
  IF c > Len(w.colonists) THEN 0
  ELSE IF lookupColonist(w.table, c) # 0 THEN findColonist_ignoresStatus(w, status, c + 1)
  ELSE c

\* mutant: a colonist that already has a job is not passed over
RECURSIVE findColonist_ignoresBusy(_, _, _)
findColonist_ignoresBusy(w, status, c) ==
  IF c > Len(w.colonists) THEN 0
  ELSE IF status # "" /\ ~w.colonists[c].status[status] THEN findColonist_ignoresBusy(w, status, c + 1)
  ELSE c

\* simulation.colonists.find(...): the first colonist without a job that has
\* the status the shape needs (status = "" needs none); 0 for undefined
RECURSIVE findColonist(_, _, _)
findColonist(w, status, c) ==
  IF c > Len(w.colonists) THEN 0
  ELSE IF lookupColonist(w.table, c) # 0 THEN findColonist(w, status, c + 1)
  ELSE IF status # "" /\ ~w.colonists[c].status[status] THEN findColonist(w, status, c + 1)
  ELSE c

\* mutant: a furniture whose stand is held by a job gets another job
scheduleProduction_ignoresInUse(w, r, furniture) ==
  LET room == w.rooms[r]
      shape == furnitureShape(room)
      stand == Offset(furniture, shape.stand)
      colonist == findColonist(w, shape.status, 1)
      dest == findOpenOutputTile(w, room)
  IN IF colonist = 0 THEN pushCandidate(w, r, furniture, 0, "No colonist available")
     ELSE IF dest = NoPos THEN pushCandidate(w, r, furniture, 0, "No output tile available")
     ELSE addProductionJob(w, r, furniture, colonist, stand, dest)

\* the furniture is ready for a production job
scheduleProduction(w, r, furniture) ==
  LET room == w.rooms[r]
      shape == furnitureShape(room)
      stand == Offset(furniture, shape.stand)
      colonist == findColonist(w, shape.status, 1)
      dest == findOpenOutputTile(w, room)
  IN IF lookupStand(w.table, stand) # 0 THEN pushCandidate(w, r, furniture, 0, "Furniture in use")
     ELSE IF colonist = 0 THEN pushCandidate(w, r, furniture, 0, "No colonist available")
     ELSE IF dest = NoPos THEN pushCandidate(w, r, furniture, 0, "No output tile available")
     ELSE addProductionJob(w, r, furniture, colonist, stand, dest)

\* mutant: items that a job references are not filtered out
availableItems_ignoresJobs(w, fip, type) ==
  SelectSeq(findItemsOfType(w.items, type),
            LAMBDA item : ~(isItemPosOnGround(item) /\ item.pos \in fip))

\* mutant: items lying on furniture input positions are not filtered out
availableItems_ignoresSlots(w, fip, type) ==
  SelectSeq(findItemsOfType(w.items, type), LAMBDA item : lookupItem(w.table, item.id) = 0)

\* the items a transport job may fetch, in map.items order: of the type, in
\* no job, and not on a furniture input position (the key of a carried
\* item's pos, a colonist, is never in the set)
availableItems(w, fip, type) ==
  SelectSeq(findItemsOfType(w.items, type),
            LAMBDA item : /\ lookupItem(w.table, item.id) = 0
                          /\ ~(isItemPosOnGround(item) /\ item.pos \in fip))

\* mutant: the first item of the type is fetched, whether or not a job
\* references it
scheduleTransport_firstOfType(w, fip, r, furniture, i, dest) ==
  LET input == furnitureShape(w.rooms[r]).inputs[i]
      colonist == findColonist(w, "", 1)
      items == findItemsOfType(w.items, input.type)
  IN IF lookupDest(w.table, dest) # 0 THEN pushCandidate(w, r, furniture, i, "Destination reserved")
     ELSE IF colonist = 0 THEN pushCandidate(w, r, furniture, i, "No colonist available")
     ELSE IF Len(items) = 0 THEN pushCandidate(w, r, furniture, i, "No items available")
     ELSE addTransportJob(w, r, furniture, colonist, items[1].id, dest)

\* the body of the loop over the inputs, for input i
scheduleTransport(w, fip, r, furniture, i, dest) ==
  LET input == furnitureShape(w.rooms[r]).inputs[i]
      colonist == findColonist(w, "", 1)
      items == availableItems(w, fip, input.type)
  IN IF lookupDest(w.table, dest) # 0 THEN pushCandidate(w, r, furniture, i, "Destination reserved")
     ELSE IF colonist = 0 THEN pushCandidate(w, r, furniture, i, "No colonist available")
     ELSE IF Len(items) = 0 THEN pushCandidate(w, r, furniture, i, "No items available")
     ELSE addTransportJob(w, r, furniture, colonist, items[1].id, dest)

\* the loop over the inputs; inputItems was computed before the loop
RECURSIVE transportLoop(_, _, _, _, _, _)
transportLoop(w, fip, r, furniture, inputItems, i) ==
  IF i > Len(inputItems) THEN w
  ELSE transportLoop(
         IF inputItems[i] # 0 THEN w
         ELSE scheduleTransport(w, fip, r, furniture, i,
                                Offset(furniture, furnitureShape(w.rooms[r]).inputs[i].pos)),
         fip, r, furniture, inputItems, i + 1)

\* mutant: the furniture is taken as ready whether or not its inputs are
\* filled
scheduleFurniture_noInputsCheck(w, fip, r, furniture) == scheduleProduction(w, r, furniture)

\* the body of the loop over a room's furniture
scheduleFurniture(w, fip, r, furniture) ==
  LET inputs == furnitureShape(w.rooms[r]).inputs
      inputItems == [i \in 1..Len(inputs) |-> findItemOnTile(w.items, Offset(furniture, inputs[i].pos))]
  IN IF \A i \in 1..Len(inputs) : inputItems[i] # 0
     THEN scheduleProduction(w, r, furniture)
     ELSE transportLoop(w, fip, r, furniture, inputItems, 1)

\* the loops over sortedRooms (index k) and over the room's furniture (index f)
RECURSIVE scheduleLoop(_, _, _, _, _)
scheduleLoop(w, fip, order, k, f) ==
  IF k > Len(order) THEN w
  ELSE IF f > Len(w.rooms[order[k]].furniture) THEN scheduleLoop(w, fip, order, k + 1, 1)
  ELSE scheduleLoop(scheduleFurniture(w, fip, order[k], w.rooms[order[k]].furniture[f]),
                    fip, order, k, f + 1)

\* mutant: the candidates of earlier passes are kept
jobsSimulate_keepsCandidates(w) ==
  IF w.err # "" THEN w
  ELSE IF ShapelessFurniture(w.rooms) THEN Throw(w, "TypeError: furnitureShape is null")
  ELSE scheduleLoop(w, furnitureInputPositions(w.rooms), sortedRooms(w.rooms), 1, 1)

jobsSimulate(w) ==
  IF w.err # "" THEN w
  ELSE IF ShapelessFurniture(w.rooms) THEN Throw(w, "TypeError: furnitureShape is null")
  ELSE scheduleLoop([w EXCEPT !.candidates = <<>>], furnitureInputPositions(w.rooms),
                    sortedRooms(w.rooms), 1, 1)

-----------------------------------------------------------------------------
(* simulation *)

EVENT_TIMES_BY_HOUR ==
  (6 :> "eat") @@ (7 :> "work") @@ (12 :> "eat") @@ (13 :> "work") @@
  (18 :> "eat") @@ (19 :> "work") @@ (22 :> "sleep")

timeOfDay(tickId) == tickId % TICKS_PER_DAY

\* mutant: the hour is rounded down, the event lasts the whole hour
statusToSet_wholeHour(tickId) ==
  IF ((24 * timeOfDay(tickId)) \div TICKS_PER_DAY) \in DOMAIN EVENT_TIMES_BY_HOUR
  THEN EVENT_TIMES_BY_HOUR[(24 * timeOfDay(tickId)) \div TICKS_PER_DAY] ELSE ""

\* EVENT_TIMES_BY_HOUR[this.hour], "" for undefined: hour is
\* 24 * timeOfDay / TICKS_PER_DAY, a key only where the division is exact
statusToSet(tickId) ==
  LET n == 24 * timeOfDay(tickId)
  IN IF n % TICKS_PER_DAY = 0 /\ (n \div TICKS_PER_DAY) \in DOMAIN EVENT_TIMES_BY_HOUR
     THEN EVENT_TIMES_BY_HOUR[n \div TICKS_PER_DAY] ELSE ""

applyStatus(w, c, event) ==
  IF event = "eat" THEN [w EXCEPT !.colonists[c].status.hungry = TRUE]
  ELSE IF event = "sleep" THEN [w EXCEPT !.colonists[c].status.sleepy = TRUE]
  ELSE w

\* mutant: jobs.simulate() runs after every colonist's turn
RECURSIVE colonistLoop_schedules(_, _, _, _)
colonistLoop_schedules(w, event, c, turns) ==
  IF c > Len(w.colonists) \/ w.err # "" THEN [w |-> w, turns |-> turns]
  ELSE colonistLoop_schedules(jobsSimulate(colonistSimulate(applyStatus(w, c, event), c)), event, c + 1,
                              Append(turns, applyStatus(w, c, event)))

\* the loop over the colonists.  turns collects the world as it is right
\* before each colonist's simulate() (after its status was set).
RECURSIVE colonistLoop(_, _, _, _)
colonistLoop(w, event, c, turns) ==
  IF c > Len(w.colonists) \/ w.err # "" THEN [w |-> w, turns |-> turns]
  ELSE colonistLoop(colonistSimulate(applyStatus(w, c, event), c), event, c + 1,
                    Append(turns, applyStatus(w, c, event)))

\* simulation.simulate(): the world after the tick, and the worlds inside
\* the tick: turns[c] before colonist c's turn, turns[n+1] before
\* jobs.simulate() (absent when a turn threw)
simulate(w) ==
  LET ticked == [w EXCEPT !.tickId = @ + 1]
      looped == colonistLoop(ticked, statusToSet(ticked.tickId), 1, <<>>)
  IN IF looped.w.err # "" THEN looped
     ELSE [w |-> jobsSimulate(looped.w), turns |-> Append(looped.turns, looped.w)]

-----------------------------------------------------------------------------
(* The state *)

VARIABLES
  tickId,       \* simulation.tickId
  colonists,    \* simulation.colonists
  items,        \* map.items
  nextItemId,   \* _nextItemId
  table,        \* jobs.table
  jobId,        \* jobs._id
  candidates,   \* jobs.candidates
  rooms,        \* map.rooms
  walkable,     \* the keys of map.walkable
  err,          \* the exception that ended the last call, "" for none
  turns,        \* the worlds inside the last tick (history)
  standSince,   \* per colonist, the tick since which it stands on the stand
                \* of its production job with nowhere to go (history)
  wilderness,   \* WILDERNESS_ROOM.furniture
  born          \* per job id, the tick whose pass created the job and, for a
                \* transport job, the distances at that moment (history)

vars == <<tickId, colonists, items, nextItemId, table, jobId, candidates, rooms, walkable, err, turns, standSince, wilderness, born>>

World ==
  [tickId |-> tickId, colonists |-> colonists, items |-> items, nextItemId |-> nextItemId,
   table |-> table, jobId |-> jobId, candidates |-> candidates, rooms |-> rooms,
   walkable |-> walkable, err |-> err]

SetWorld(w) ==
  /\ tickId' = w.tickId /\ colonists' = w.colonists /\ items' = w.items
  /\ nextItemId' = w.nextItemId /\ table' = w.table /\ jobId' = w.jobId
  /\ candidates' = w.candidates /\ rooms' = w.rooms /\ walkable' = w.walkable
  /\ err' = w.err

\* new Colonist(pos)
Colonist(pos) == [pos |-> pos, path |-> <<>>, status |-> [hungry |-> FALSE, sleepy |-> FALSE], inventory |-> 0]

\* simulation.init(): the colonists start side by side
InitialColonists(n) == [c \in 1..n |-> Colonist(Pos(0, (c - 1) % 3))]

NotStanding == [job |-> 0, tick |-> 0]

Adjacent(s, t) == (s[1] = t[1] /\ (s[2] - t[2]) \in {-1, 1}) \/ (s[2] = t[2] /\ (s[1] - t[1]) \in {-1, 1})

\* the least number of 4-directional steps from the tiles of seen (all at
\* most k steps from the start) to goal over walkable tiles, -1 if there is
\* no route
RECURSIVE StepsFrom(_, _, _, _)
StepsFrom(tiles, seen, goal, k) ==
  IF goal \in seen THEN k
  ELSE LET more == seen \cup {t \in tiles : \E s \in seen : Adjacent(s, t)}
       IN IF more = seen THEN -1 ELSE StepsFrom(tiles, more, goal, k + 1)

MinSteps(tiles, start, goal) == StepsFrom(tiles, {start}, goal, 0)

\* born after a tick that ends in world w: the jobs the pass of the tick
\* created are the rows with the ids above those recorded; d1 is the least
\* number of steps from the colonist to the item, d2 from the item to the
\* destination (0 for a production job)
bornAfter(old, w) ==
  [id \in 1..w.jobId |->
     IF id <= Len(old) THEN old[id]
     ELSE LET job == w.table[findJob({i \in 1..Len(w.table) : w.table[i].id = id})]
              at == itemLoc(w.items, job.item).pos
          IN IF job.type = "transport"
             THEN [tick |-> w.tickId,
                   d1 |-> MinSteps(w.walkable, w.colonists[job.colonist].pos, at),
                   d2 |-> MinSteps(w.walkable, at, job.dest)]
             ELSE [tick |-> w.tickId, d1 |-> 0, d2 |-> 0]]

\* standSince after a tick that ends in world w
standSinceAfter(old, w) ==
  [c \in 1..Len(w.colonists) |->
     LET ji == lookupColonist(w.table, c)
     IN IF /\ ji # 0
           /\ w.table[ji].type = "production"
           /\ w.colonists[c].pos = w.table[ji].stand
           /\ w.colonists[c].path = <<>>
        THEN IF old[c].job = w.table[ji].id THEN old[c]
             ELSE [job |-> w.table[ji].id, tick |-> w.tickId]
        ELSE NotStanding]

Init ==
  \E layout \in Layouts, n \in 1..MaxColonists :
    /\ tickId = 1
    /\ colonists = InitialColonists(n)
    /\ items = <<>>
    /\ nextItemId = 0
    /\ table = <<>>
    /\ jobId = 0
    /\ candidates = <<>>
    /\ rooms = InitialRooms(layout)
    /\ walkable = InitialWalkable(layout)
    /\ err = ""
    /\ turns = <<>>
    /\ standSince = [c \in 1..n |-> NotStanding]
    /\ wilderness = <<>>
    /\ born = <<>>

\* main.loop in 'view' mode: one simulation.simulate()
Tick ==
  /\ err = ""
  /\ tickId < MaxTick
  /\ \E r \in {simulate(World)} :
       /\ SetWorld(r.w)
       /\ turns' = r.turns
       /\ standSince' = standSinceAfter(standSince, r.w)
       /\ born' = bornAfter(born, r.w)
       /\ UNCHANGED wilderness

Next == Tick

\* the timer of main.loop fires again and again while the page has focus
\* main.loop re-arms its timer after every call of simulation.simulate that
\* returns, so the clock keeps advancing until an exception escapes.  Every
\* step that changes tickId is a Tick step and Tick is enabled exactly when
\* TimerFires is, so this is weak fairness of Tick.
TimerFires == err = "" /\ tickId < MaxTick /\ tickId' = tickId + 1

Spec == Init /\ [][Next]_vars /\ WF_tickId(TimerFires)

-----------------------------------------------------------------------------
(* The item registry on its own: the four operations called in any order   *)
(* with any arguments, each call on its own (err is the outcome of the     *)
(* last call), and colonists stepping between a few tiles.                 *)

ItemTiles == {Pos(0, 0), Pos(0, 1)}

ItemIds == {items[i].id : i \in 1..Len(items)}

Called(w) == SetWorld(w) /\ UNCHANGED <<turns, standSince, wilderness, born>>

CallItemCreate(type, c) ==
  /\ nextItemId < MaxItems
  /\ Called(itemCreate([World EXCEPT !.err = ""], type, c))

CallItemDestroy(id) == Called(itemDestroy([World EXCEPT !.err = ""], id))

CallItemPickUp(c, id) == Called(itemPickUp([World EXCEPT !.err = ""], c, id))

CallItemDrop(c, id) == Called(itemDrop([World EXCEPT !.err = ""], c, id))

\* this.pos = this.path.pop()
MoveColonist(c, pos) == Called([World EXCEPT !.err = "", !.colonists[c].pos = pos])

InitItems ==
  \E n \in {2} :
    /\ tickId = 1
    /\ colonists = InitialColonists(n)
    /\ items = <<>>
    /\ nextItemId = 0
    /\ table = <<>>
    /\ jobId = 0
    /\ candidates = <<>>
    /\ rooms = <<>>
    /\ walkable = ItemTiles
    /\ err = ""
    /\ turns = <<>>
    /\ standSince = [c \in 1..n |-> NotStanding]
    /\ wilderness = <<>>
    /\ born = <<>>

NextItems ==
  \/ \E type \in {"rawfood", "meal"}, c \in 1..Len(colonists) : CallItemCreate(type, c)
  \/ \E id \in ItemIds : CallItemDestroy(id)
  \/ \E c \in 1..Len(colonists), id \in ItemIds : CallItemPickUp(c, id)
  \/ \E c \in 1..Len(colonists), id \in ItemIds : CallItemDrop(c, id)
  \/ \E c \in 1..Len(colonists), pos \in ItemTiles : MoveColonist(c, pos)

SpecItems == InitItems /\ [][NextItems]_vars

-----------------------------------------------------------------------------
(* The pathfinder called on its own: one colonist on a grid of GridW       *)
(* columns and three rows of which at most MaxWalls tiles are not          *)
(* walkable.  The colonist asks for a path to any tile of the grid when it  *)
(* has none, and follows the path it has.                                  *)

Grid == {Pos(x, y) : x \in 0..(GridW - 1), y \in 0..2}

Grids == {Grid \ walls : walls \in {ws \in SUBSET Grid : Cardinality(ws) <= MaxWalls}}

\* this.path = findPath(map, this.pos, goal): Colonist.simulate asks for a
\* path only when it has none
CallFindPath(c, goal) ==
  /\ Len(colonists[c].path) = 0
  /\ \E w \in {setPath([World EXCEPT !.err = ""], c, goal)} : Called(w)

\* this.pos = this.path.pop()
FollowPath(c) ==
  /\ err = ""
  /\ Len(colonists[c].path) > 0
  /\ \E w \in {colonistSimulate(World, c)} : Called(w)

InitPath ==
  \E grid \in Grids, start \in Grid :
    /\ start \in grid
    /\ tickId = 1
    /\ colonists = <<Colonist(start)>>
    /\ items = <<>>
    /\ nextItemId = 0
    /\ table = <<>>
    /\ jobId = 0
    /\ candidates = <<>>
    /\ rooms = <<>>
    /\ walkable = grid
    /\ err = ""
    /\ turns = <<>>
    /\ standSince = <<NotStanding>>
    /\ wilderness = <<>>
    /\ born = <<>>

NextPath ==
  \/ \E goal \in Grid : CallFindPath(1, goal)
  \/ FollowPath(1)

SpecPath == InitPath /\ [][NextPath]_vars

-----------------------------------------------------------------------------
(* The job table called on its own: jobs are added for two colonists and   *)
(* deleted in any order, a job that was deleted before included.           *)

\* the destinations of the jobs: the first two tiles findOpenOutputTile tries
JobTiles == {Pos(RoomRect(1).right - 1, RoomRect(1).bottom - 1), Pos(RoomRect(1).right - 1, RoomRect(1).bottom - 2)}

CallAddTransportJob(c, dest) ==
  /\ jobId < MaxJobs
  /\ \E w \in {addTransportJob([World EXCEPT !.err = ""], 1, Pos(2, 1), c, 0, dest)} : Called(w)

CallAddProductionJob(c, dest) ==
  /\ jobId < MaxJobs
  /\ \E w \in {addProductionJob([World EXCEPT !.err = ""], 1, Pos(2, 1), c, Pos(2, 1), dest)} : Called(w)

CallDeleteJob(id) == \E w \in {deleteJob([World EXCEPT !.err = ""], id)} : Called(w)

InitJobs ==
  /\ tickId = 1
  /\ colonists = InitialColonists(2)
  /\ items = <<>>
  /\ nextItemId = 0
  /\ table = <<>>
  /\ jobId = 0
  /\ candidates = <<>>
  /\ rooms = InitialRooms(<<R("farm", TRUE, 1)>>)
  /\ walkable = InitialWalkable(<<R("farm", TRUE, 1)>>)
  /\ err = ""
  /\ turns = <<>>
  /\ standSince = <<NotStanding, NotStanding>>
  /\ wilderness = <<>>
  /\ born = <<>>

NextJobs ==
  \/ \E c \in 1..Len(colonists), dest \in JobTiles : CallAddTransportJob(c, dest)
  \/ \E c \in 1..Len(colonists), dest \in JobTiles : CallAddProductionJob(c, dest)
  \/ \E id \in 1..jobId : CallDeleteJob(id)

SpecJobs == InitJobs /\ [][NextJobs]_vars

-----------------------------------------------------------------------------
(* The simulation with the clicks of the 'furniture' and 'room' modes      *)
(* between its ticks.  The handlers run whenever the user clicks; they do  *)
(* not throw and do not touch the timer of main.loop.                      *)

\* unlockedRoomAtPosition for a tile outside the wilderness: the index of
\* the unlocked room whose interior holds pos (unlockRoom enters the
\* interior tiles with in: room, the doors with in: door), 0 for undefined
unlockedRoomAtPosition(rms, pos) ==
  IF \E r \in 1..Len(rms) : rms[r].unlocked /\ positionInRoom(rms[r], pos)
  THEN CHOOSE r \in 1..Len(rms) : rms[r].unlocked /\ positionInRoom(rms[r], pos)
  ELSE 0

\* mutant: tiles that are the destination of a job may be built on
isPositionInRoomBuildable_ignoresJobs(w, r, pos) ==
  /\ w.rooms[r].unlocked
  /\ positionInRoom(w.rooms[r], pos)
  /\ \A f \in 1..Len(w.rooms[r].furniture) :
       pos \notin positionsOccupiedByFurniture(w.rooms[r], w.rooms[r].furniture[f])
  /\ findItemOnTile(w.items, pos) = 0

isPositionInRoomBuildable(w, r, pos) ==
  /\ w.rooms[r].unlocked
  /\ positionInRoom(w.rooms[r], pos)
  /\ \A f \in 1..Len(w.rooms[r].furniture) :
       pos \notin positionsOccupiedByFurniture(w.rooms[r], w.rooms[r].furniture[f])
  /\ lookupDest(w.table, pos) = 0
  /\ findItemOnTile(w.items, pos) = 0

\* main.furniture_onClick on a tile of a room of map.rooms: the rooms after
\* the click
furniture_onClick(w, pos) ==
  LET r == unlockedRoomAtPosition(w.rooms, pos)
  IN IF r = 0 THEN w.rooms
     ELSE IF \E p \in positionsOccupiedByFurniture(w.rooms[r], pos) : ~isPositionInRoomBuildable(w, r, p)
     THEN w.rooms
     ELSE [w.rooms EXCEPT ![r].furniture = Append(@, pos)]

\* unlockableRoomList: the locked rooms with a door to an unlocked room or
\* to the wilderness (which is unlocked); room i has a door to room i - 1,
\* room 1 to the wilderness.  With three rooms the limit of three never
\* cuts the list.
unlockableRoomList(rms) ==
  {i \in 1..Len(rms) :
     /\ ~rms[i].unlocked
     /\ \/ i = 1
        \/ rms[i - 1].unlocked
        \/ i < Len(rms) /\ rms[i + 1].unlocked}

\* the pieces of furniture of all rooms
TotalFurniture == Len(wilderness) + Len(rooms[1].furniture) + Len(rooms[2].furniture) + Len(rooms[3].furniture)

\* the tiles the user clicks on: three tiles of every room, a door and a
\* wilderness tile
ClickTiles ==
  UNION {{Pos(RoomRect(i).left + 1, 1), Pos(RoomRect(i).left + 2, 1),
          Pos(RoomRect(i).left + 3, 3)} : i \in 1..3}
    \cup {DoorPos(1), Pos(0, 3)}

\* a click in 'furniture' mode
FurnitureClick(pos) ==
  /\ TotalFurniture < MaxFurniture
  /\ IF pos \in WildernessTiles
     THEN wilderness' = Append(wilderness, pos) /\ rooms' = rooms
     ELSE wilderness' = wilderness /\ rooms' = furniture_onClick(World, pos)
  /\ UNCHANGED <<tickId, colonists, items, nextItemId, table, jobId, candidates, walkable, err, turns, standSince, born>>

\* a click in 'room' mode: unlockRoom of the unlockable room under the
\* pointer
RoomClick(pos) ==
  /\ \E i \in unlockableRoomList(rooms) :
       /\ positionInRoom(rooms[i], pos)
       /\ rooms' = [rooms EXCEPT ![i].unlocked = TRUE]
       /\ walkable' = walkable \cup UnlockedTiles(i, Len(rooms))
  /\ UNCHANGED <<tickId, colonists, items, nextItemId, table, jobId, candidates, err, turns, standSince, wilderness, born>>

TickUI == tickId < MaxUITick /\ Tick

UILayouts ==
  { << R("farm", TRUE, 1), R("kitchen", TRUE, 1), R("dining", FALSE, 0) >>,
    << R("farm", TRUE, 1), R("kitchen", TRUE, 1), R("open", TRUE, 0) >> }

InitUI ==
  \E layout \in UILayouts :
    /\ tickId = 1
    /\ colonists = InitialColonists(MaxColonists)
    /\ items = <<>>
    /\ nextItemId = 0
    /\ table = <<>>
    /\ jobId = 0
    /\ candidates = <<>>
    /\ rooms = InitialRooms(layout)
    /\ walkable = InitialWalkable(layout)
    /\ err = ""
    /\ turns = <<>>
    /\ standSince = [c \in 1..MaxColonists |-> NotStanding]
    /\ wilderness = <<>>
    /\ born = <<>>

NextUI ==
  \/ TickUI
  \/ \E pos \in ClickTiles : FurnitureClick(pos)
  \/ \E pos \in ClickTiles : RoomClick(pos)

SpecUI == InitUI /\ [][NextUI]_vars

-----------------------------------------------------------------------------
(* The simulation with furniture clicks while a colonist walks away from a *)
(* finished job: a colonist that has no job and is still on its way is the *)
(* one the next scheduler pass can bind in the middle of its walk.         *)

WalkLayouts ==
  { << R("bedroom", TRUE, 1), R("farm", TRUE, 1), R("kitchen", TRUE, 0) >>,
    << R("farm", TRUE, 1), R("bedroom", TRUE, 1), R("kitchen", TRUE, 0) >>,
    << R("farm", TRUE, 1), R("kitchen", TRUE, 0), R("bedroom", TRUE, 1) >> }

InitWalk ==
  \E layout \in WalkLayouts, n \in 1..MaxColonists :
    /\ tickId = 1
    /\ colonists = InitialColonists(n)
    /\ items = <<>>
    /\ nextItemId = 0
    /\ table = <<>>
    /\ jobId = 0
    /\ candidates = <<>>
    /\ rooms = InitialRooms(layout)
    /\ walkable = InitialWalkable(layout)
    /\ err = ""
    /\ turns = <<>>
    /\ standSince = [c \in 1..n |-> NotStanding]
    /\ wilderness = <<>>
    /\ born = <<>>

\* a click in 'furniture' mode at a moment when a colonist without a job
\* has a path left
ClickWhileWalking(pos) ==
  /\ \E c \in 1..Len(colonists) : lookupColonist(table, c) = 0 /\ colonists[c].path # <<>>
  /\ FurnitureClick(pos)

NextWalk ==
  \/ Tick
  \/ \E pos \in ClickTiles : ClickWhileWalking(pos)

SpecWalk == InitWalk /\ [][NextWalk]_vars

-----------------------------------------------------------------------------
(* Properties *)

Jobs == 1..Len(table)

Colonists == 1..Len(colonists)

\* jobs.simulate() ran in the last tick; PreSchedule is the world it ran on
Scheduled == err = "" /\ Len(turns) = Len(colonists) + 1

PreSchedule == turns[Len(turns)]

HasCandidate(list, r, furniture, status) ==
  \E k \in 1..Len(list) :
    list[k].room = r /\ list[k].furniture = furniture /\ list[k].status = status

\* the furniture pieces of the world, as <<room index, furniture index>>
Fixtures == UNION {{<<r, f>> : f \in 1..Len(rooms[r].furniture)} : r \in 1..Len(rooms)}

FixturePos(rf) == rooms[rf[1]].furniture[rf[2]]

FixtureStand(rf) == Offset(FixturePos(rf), furnitureShape(rooms[rf[1]]).stand)

\* every input position of the fixture holds a ground item
FixtureReady(its, rf) ==
  \A i \in 1..Len(furnitureShape(rooms[rf[1]]).inputs) :
    findItemOnTile(its, Offset(FixturePos(rf), furnitureShape(rooms[rf[1]]).inputs[i].pos)) # 0

\* C1: at every tick boundary no two distinct jobs of the job table have the
\* same destination position.
C1_UniqueDest == \A i, j \in Jobs : i # j => table[i].dest # table[j].dest

\* two production jobs of the same room are in the table at once: the second
\* one's destination was searched while the first one's was reserved
C1_Witness ==
  \E i, j \in Jobs :
    /\ i < j /\ table[i].room = table[j].room
    /\ table[i].type = "production" /\ table[j].type = "production"
    /\ table[i].dest # table[j].dest

\* C2: at every tick boundary every item of the registry is located either
\* on a ground position or with an agent, never both and never neither.
C2_ItemLocated ==
  \A i \in 1..Len(items) :
    \/ items[i].on = "ground" /\ items[i].pos # NoPos /\ items[i].c = 0
    \/ items[i].on = "colonist" /\ items[i].pos = NoPos /\ items[i].c \in Colonists

\* an item on the ground and a carried item exist after an item was destroyed
C2_Witness ==
  /\ \E i \in 1..Len(items) : items[i].on = "ground"
  /\ \E i \in 1..Len(items) : items[i].on = "colonist"
  /\ nextItemId > Len(items)

\* C3: at every tick boundary each agent is the assigned agent of at most
\* one job of the job table.
C3_OneJobPerColonist == \A i, j \in Jobs : i # j => table[i].colonist # table[j].colonist

\* every colonist of two has a job and the scheduler turned a need down for
\* want of a colonist
C3_Witness ==
  /\ Len(colonists) >= 2
  /\ \A c \in Colonists : lookupColonist(table, c) # 0
  /\ \E k \in 1..Len(candidates) : candidates[k].status = "No colonist available"

\* C4: each agent carries at most one item, and every item located with an
\* agent is referenced by that agent's inventory slot and by no other
\* agent's.
C4_CarriedOnce ==
  /\ \A c \in Colonists :
       Cardinality({i \in 1..Len(items) : items[i].on = "colonist" /\ items[i].c = c}) <= 1
  /\ \A i \in 1..Len(items) :
       items[i].on = "colonist" =>
         /\ items[i].c \in Colonists
         /\ \A c \in Colonists : (colonists[c].inventory = items[i].id) <=> (c = items[i].c)

\* two colonists carry an item each
C4_Witness ==
  \E c, d \in Colonists :
    /\ c # d /\ colonists[c].inventory # 0 /\ colonists[d].inventory # 0
    /\ itemLoc(items, colonists[c].inventory).c = c
    /\ itemLoc(items, colonists[d].inventory).c = d

\* C5: at every tick boundary no two production jobs have the same stand
\* position, and a fixture that is ready for production while a job holds
\* its stand gets no second job but the diagnostic "Furniture in use".
C5_StandExclusive ==
  /\ \A i, j \in Jobs :
       (i # j /\ table[i].stand # NoPos /\ table[j].stand # NoPos) => table[i].stand # table[j].stand
  /\ Scheduled =>
       \A rf \in Fixtures :
         (FixtureReady(items, rf) /\ lookupStand(PreSchedule.table, FixtureStand(rf)) # 0)
           => HasCandidate(candidates, rf[1], FixturePos(rf), "Furniture in use")

\* a pass turned down a ready fixture whose stand a production job holds
C5_Witness ==
  /\ Scheduled
  /\ \E rf \in Fixtures :
       /\ FixtureReady(items, rf)
       /\ lookupStand(PreSchedule.table, FixtureStand(rf)) # 0
       /\ HasCandidate(candidates, rf[1], FixturePos(rf), "Furniture in use")
       /\ Cardinality({i \in Jobs : table[i].stand = FixtureStand(rf)}) = 1

\* the world after one more jobs.simulate() on the world as it is: no
\* colonist turn and no tick in between
SecondPass == jobsSimulate(World)

\* C6: a second scheduler pass on the unchanged world creates no job whose
\* stand or destination is the stand or destination of a job that is in the
\* table after the first pass.
C6_SecondPassNoDuplicate ==
  Scheduled =>
    \A k \in (Len(table) + 1)..Len(SecondPass.table) :
      \A i \in Jobs :
        /\ SecondPass.table[k].dest # table[i].dest
        /\ SecondPass.table[k].stand = NoPos \/ SecondPass.table[k].stand # table[i].stand
        /\ ~(SecondPass.table[k].furniture = table[i].furniture
              /\ SecondPass.table[k].type = "production" /\ table[i].type = "production")

\* the second pass meets a fixture whose stand is held by a job of the first
\* pass and a slot that is the destination of a job, and turns both down
C6_Witness ==
  /\ Scheduled
  /\ Len(table) > Len(PreSchedule.table)
  /\ \E rf \in Fixtures :
       /\ lookupStand(PreSchedule.table, FixtureStand(rf)) = 0
       /\ lookupStand(table, FixtureStand(rf)) # 0
       /\ HasCandidate(SecondPass.candidates, rf[1], FixturePos(rf), "Furniture in use")
  /\ \E k \in 1..Len(SecondPass.candidates) : SecondPass.candidates[k].status = "Destination reserved"

IdleColonists(w) == {c \in 1..Len(w.colonists) : lookupColonist(w.table, c) = 0}

FixturePriority(rf) == priority(rooms[rf[1]])

\* a job of the table binds colonist c to the fixture
AssignedTo(rf, c) ==
  \E i \in Jobs :
    table[i].colonist = c /\ table[i].room = rf[1] /\ table[i].furniture = FixturePos(rf)

\* Before the pass no job exists, exactly one colonist is idle, and hi is
\* the fixture of highest priority, lo another fixture of lower priority.
C7_Case(hi, lo) ==
  /\ Scheduled
  /\ PreSchedule.table = <<>>
  /\ Cardinality(IdleColonists(PreSchedule)) = 1
  /\ hi # lo
  /\ \A rf \in Fixtures \ {hi} : FixturePriority(hi) > FixturePriority(rf)

C7_Outcome(hi, lo) ==
  /\ \E c \in IdleColonists(PreSchedule) : AssignedTo(hi, c)
  /\ HasCandidate(candidates, lo[1], FixturePos(lo), "No colonist available")

\* colonist c can serve the need of the fixture in world w: for a
\* production need c has the status the shape asks for and the room has an
\* open output tile; for a transport need an item of the type of an empty
\* slot is available
Servable(w, rf, c) ==
  LET shape == furnitureShape(rooms[rf[1]])
  IN IF FixtureReady(w.items, rf)
     THEN /\ shape.status = "" \/ w.colonists[c].status[shape.status]
          /\ findOpenOutputTile(w, rooms[rf[1]]) # NoPos
     ELSE \E i \in 1..Len(shape.inputs) :
            /\ findItemOnTile(w.items, Offset(FixturePos(rf), shape.inputs[i].pos)) = 0
            /\ Len(availableItems(w, furnitureInputPositions(rooms), shape.inputs[i].type)) > 0

\* C7 as stated: with no job in the table, one idle agent and two fixtures
\* of different priority, a scheduler pass assigns the agent to the fixture
\* of higher priority and records "No colonist available" for the other.
C7_AsStated == \A hi, lo \in Fixtures : C7_Case(hi, lo) => C7_Outcome(hi, lo)

\* C7 amended: the same, provided the agent can serve the need of the
\* fixture of higher priority.
C7_PriorityFirst ==
  \A hi, lo \in Fixtures :
    (C7_Case(hi, lo) /\ \A c \in IdleColonists(PreSchedule) : Servable(PreSchedule, hi, c))
      => C7_Outcome(hi, lo)

\* the case, with the fixture of higher priority in a later room of the map
C7_Witness ==
  \E hi, lo \in Fixtures :
    /\ C7_Case(hi, lo)
    /\ \A c \in IdleColonists(PreSchedule) : Servable(PreSchedule, hi, c)
    /\ C7_Outcome(hi, lo)
    /\ hi[1] > lo[1]

\* the transport job of colonist c, as a set of at most one row index
TransportJobOf(c) == {i \in Jobs : table[i].colonist = c /\ table[i].type = "transport"}

\* the job's destination is an input position of its fixture, and the item
\* is of the type that input takes
ToInputSlot(job) ==
  \E i \in 1..Len(furnitureShape(rooms[job.room]).inputs) :
    /\ job.dest = Offset(job.furniture, furnitureShape(rooms[job.room]).inputs[i].pos)
    /\ \E k \in 1..Len(items) :
         items[k].id = job.item /\ items[k].type = furnitureShape(rooms[job.room]).inputs[i].type

\* until it holds the item the colonist heads for the item's tile and the
\* item lies on the ground; once it holds the item it heads for the
\* destination
FetchThenDeliver(job) ==
  LET me == colonists[job.colonist]
  IN IF me.inventory = job.item
     THEN IF me.path = <<>> THEN me.pos = job.dest ELSE me.path[1] = job.dest
     ELSE /\ me.inventory = 0
          /\ isItemPosOnGround(itemLoc(items, job.item))
          /\ me.path = <<>> \/ me.path[1] = itemLoc(items, job.item).pos

C8_Order ==
  \A i \in Jobs : table[i].type = "transport" => ToInputSlot(table[i]) /\ FetchThenDeliver(table[i])

\* colonist c has a transport job and does not hold the item yet, with
\* Horizon ticks left to run
Fetching(c) ==
  /\ c \in Colonists
  /\ tickId + Horizon <= MaxTick
  /\ TransportJobOf(c) # {}
  /\ colonists[c].inventory = 0

\* in its turn of the last tick colonist c, holding the item of its
\* transport job, dropped it: the item lies on the job's destination, the
\* inventory is empty and the job is gone from the table
Delivered(c) ==
  /\ c \in Colonists
  /\ Len(turns) >= c
  /\ LET ji == lookupColonist(turns[c].table, c)
     IN /\ ji # 0
        /\ turns[c].table[ji].type = "transport"
        /\ turns[c].colonists[c].inventory = turns[c].table[ji].item
        /\ itemLoc(items, turns[c].table[ji].item) = [on |-> "ground", pos |-> turns[c].table[ji].dest, c |-> 0]
        /\ colonists[c].inventory = 0
        /\ \A i \in Jobs : table[i].id # turns[c].table[ji].id

\* C8: a transport job has an input slot of its fixture as destination; the
\* agent first walks to the item's tile, picks the item up, then walks to
\* the slot; eventually the item lies on the slot, the agent's inventory is
\* empty and the job is gone from the table.
C8_TransportDelivers ==
  /\ []C8_Order
  /\ \A c \in 1..MaxColonists : Fetching(c) ~> Delivered(c)

\* a colonist has just delivered an item to a kitchen's input slot
C8_Witness ==
  \E c \in Colonists :
    /\ Delivered(c)
    /\ \E k \in 1..Len(items) , rf \in Fixtures :
         /\ items[k].on = "ground"
         /\ Len(furnitureShape(rooms[rf[1]]).inputs) > 0
         /\ items[k].pos = Offset(FixturePos(rf), furnitureShape(rooms[rf[1]]).inputs[1].pos)
         /\ items[k].id = turns[c].colonists[c].inventory

\* a production job of a shape with no inputs, no output and a status flag
Restful(rms, job) ==
  /\ job.type = "production"
  /\ furnitureShape(rms[job.room]).inputs = <<>>
  /\ furnitureShape(rms[job.room]).output = ""
  /\ furnitureShape(rms[job.room]).status # ""

\* the restful job of colonist c, as a set of at most one job
RestOf(c) == {table[i] : i \in {k \in Jobs : table[k].colonist = c /\ Restful(rooms, table[k])}}

\* the step takes the job out of the table
Deleted(job) == \A k \in DOMAIN table' : table'[k].id # job.id

\* the colonist of a restful job has the flag of the shape
C9_Flagged ==
  \A i \in Jobs : Restful(rooms, table[i]) =>
    colonists[table[i].colonist].status[furnitureShape(rooms[table[i].room]).status]

\* a restful job leaves the table only in the turn that follows D ticks of
\* standing on the stand, and that turn clears the flag and computes the path
\* from the stand to the job's destination
C9_Finish ==
  \A i \in Jobs : (Restful(rooms, table[i]) /\ Deleted(table[i])) =>
    LET job == table[i]
        shape == furnitureShape(rooms[job.room])
        c == job.colonist
    IN /\ standSince[c].job = job.id
       /\ colonists[c].pos = job.stand
       /\ tickId' = standSince[c].tick + shape.ticks + 1
       /\ colonists[c].status[shape.status]
       /\ ~colonists'[c].status[shape.status]
       /\ turns'[c + 1].colonists[c].pos = job.stand
       /\ turns'[c + 1].colonists[c].path = findPath(walkable, job.stand, job.dest).path

\* colonist c has a restful job, with time left to walk and to rest
Resting(c) ==
  /\ c \in Colonists
  /\ \E job \in RestOf(c) :
       tickId + Horizon + furnitureShape(rooms[job.room]).ticks <= MaxTick

\* in its turn of the last tick colonist c finished a restful job
Rested(c) ==
  /\ c \in Colonists
  /\ Len(turns) >= c
  /\ LET ji == lookupColonist(turns[c].table, c)
     IN /\ ji # 0
        /\ Restful(rooms, turns[c].table[ji])
        /\ turns[c].table[ji].timeCompleted # 0
        /\ \A k \in Jobs : table[k].id # turns[c].table[ji].id
        /\ ~colonists[c].status[furnitureShape(rooms[turns[c].table[ji].room]).status]

\* C9: for a shape with no inputs, no output, duration D and a status flag,
\* the colonist that gets the job has the flag; it reaches the stand, stands
\* there for exactly D ticks after the tick of its arrival, and in its next
\* turn the flag is cleared, the job is deleted from the table and the path
\* to the job's destination is computed.
C9_RestThenLeave ==
  /\ []C9_Flagged
  /\ [][C9_Finish]_vars
  /\ \A c \in 1..MaxColonists : Resting(c) ~> Rested(c)

\* a colonist that walked to a bed has just finished sleeping
C9_Witness ==
  \E c \in Colonists :
    /\ Rested(c)
    /\ standSince[c] = NotStanding
    /\ colonists[c].path = findPath(walkable, colonists[c].pos,
                                     turns[c].table[lookupColonist(turns[c].table, c)].dest).path
    /\ \E t \in 1..MaxTick : t > 550 /\ tickId = t + 160 + 1

CreateRefused == "Can't create item, colonist inventory not empty"

\* itemCreate for a colonist that holds an item throws and changes nothing
C10_Refusal ==
  \A type \in ItemTypes, c \in Colonists :
    (colonists[c].inventory # 0 /\ CallItemCreate(type, c)) =>
      /\ err' = CreateRefused
      /\ items' = items
      /\ nextItemId' = nextItemId
      /\ colonists' = colonists

\* C10: itemCreate for a colonist whose inventory is not empty throws, and
\* leaves map.items (the list and every item's position) and the colonist's
\* inventory as they were.
C10_CreateRefused == [][C10_Refusal]_vars

\* itemCreate has just thrown for a colonist that holds an item, while
\* another item lies on the ground
C10_Witness ==
  /\ err = CreateRefused
  /\ \E c \in Colonists : colonists[c].inventory # 0
  /\ \E k \in 1..Len(items) : items[k].on = "ground"

Abs(n) == IF n < 0 THEN -n ELSE n

Manhattan(s, t) == Abs(s[1] - t[1]) + Abs(s[2] - t[2])

\* path, read from its last element to its first, walks from start to goal
\* over walkable tiles, one 4-directional step at a time
IsWalk(tiles, start, goal, path) ==
  /\ path # <<>> => path[1] = goal /\ Adjacent(start, path[Len(path)])
  /\ path = <<>> => start = goal
  /\ \A i \in 1..Len(path) : path[i] \in tiles
  /\ \A i \in 1..(Len(path) - 1) : Adjacent(path[i], path[i + 1])

C11_PathOf(goal) ==
  (MinSteps(walkable, colonists[1].pos, goal) >= 0 /\ CallFindPath(1, goal)) =>
    /\ err' = ""
    /\ Len(colonists'[1].path) = MinSteps(walkable, colonists[1].pos, goal)
    /\ IsWalk(walkable, colonists[1].pos, goal, colonists'[1].path)
    /\ walkable = Grid => Len(colonists'[1].path) = Manhattan(colonists[1].pos, goal)

\* C11: for every start and every goal reachable from it over walkable
\* tiles, the path findPath returns has as many positions as the least
\* number of 4-directional steps from start to goal; on a grid without walls
\* that is the Manhattan distance.
C11_ShortestPath == [][\A goal \in Grid : C11_PathOf(goal)]_vars

\* the colonist has a path that is longer than the Manhattan distance to its
\* goal: it leads around walls
C11_Witness ==
  /\ err = ""
  /\ colonists[1].path # <<>>
  /\ Len(colonists[1].path) = MinSteps(walkable, colonists[1].pos, colonists[1].path[1])
  /\ Len(colonists[1].path) > Manhattan(colonists[1].pos, colonists[1].path[1])

PathNotFound == "Path not found - should never happen"

C12_NoRoute(goal) ==
  (MinSteps(walkable, colonists[1].pos, goal) < 0 /\ CallFindPath(1, goal)) =>
    /\ err' = ""
    /\ colonists'[1].path = <<>>

\* C12: when no walkable route leads from the colonist's position to the
\* goal, no exception is raised and the colonist is left without a new
\* path.
C12_NoRouteNotFatal == [][\A goal \in Grid : C12_NoRoute(goal)]_vars

\* the colonist asked for a path to a tile no route leads to, and the
\* exception of breadthFirstSearch came out of the call
C12_Witness ==
  /\ err = PathNotFound
  /\ \E goal \in Grid : MinSteps(walkable, colonists[1].pos, goal) < 0

\* jobs.simulate() was called in the last tick
PassRan == Len(turns) = Len(colonists) + 1

\* The needs a pass examines, as <<room, furniture index, input>>: input 0
\* is the production of a fixture whose input positions all hold an item,
\* input i > 0 the i-th input position of a fixture, when it holds no item.
NeedsOf(rf) ==
  IF FixtureReady(PreSchedule.items, rf) THEN {<<rf[1], rf[2], 0>>}
  ELSE {<<rf[1], rf[2], i>> : i \in {k \in 1..Len(furnitureShape(rooms[rf[1]]).inputs) :
          findItemOnTile(PreSchedule.items, Offset(FixturePos(rf), furnitureShape(rooms[rf[1]]).inputs[k].pos)) = 0}}

Needs == UNION {NeedsOf(rf) : rf \in Fixtures}

NeedPos(n) == rooms[n[1]].furniture[n[2]]

NeedSlot(n) == Offset(NeedPos(n), furnitureShape(rooms[n[1]]).inputs[n[3]].pos)

\* need m is examined before need n: rooms by descending priority, then in
\* map order; furniture and inputs in their order
ExaminedBefore(m, n) ==
  \/ priority(rooms[m[1]]) > priority(rooms[n[1]])
  \/ priority(rooms[m[1]]) = priority(rooms[n[1]]) /\ m[1] < n[1]
  \/ m[1] = n[1] /\ m[2] < n[2]
  \/ m[1] = n[1] /\ m[2] = n[2] /\ m[3] < n[3]

\* the job is one the pass created for need n
IsJobFor(job, n) ==
  /\ job.id > PreSchedule.jobId
  /\ job.room = n[1]
  /\ job.furniture = NeedPos(n)
  /\ IF n[3] = 0 THEN job.type = "production"
     ELSE job.type = "transport" /\ job.dest = NeedSlot(n)

JobsFor(n) == {i \in Jobs : IsJobFor(table[i], n)}

EntriesFor(n) ==
  {k \in 1..Len(candidates) :
     candidates[k].room = n[1] /\ candidates[k].furniture = NeedPos(n) /\ candidates[k].input = n[3]}

\* the world in which need n is examined: the world before the pass with the
\* jobs created for the needs examined before n
WorldAt(n) ==
  [PreSchedule EXCEPT !.table =
     SelectSeq(table, LAMBDA job : \/ job.id <= PreSchedule.jobId
                                   \/ \E m \in Needs : ExaminedBefore(m, n) /\ IsJobFor(job, m))]

SomeoneFree(w, status) ==
  \E c \in 1..Len(w.colonists) :
    lookupColonist(w.table, c) = 0 /\ (status = "" \/ w.colonists[c].status[status])

\* the reason of the first check that fails for need n, "" if none fails
FirstFailure(n) ==
  LET w == WorldAt(n)
      shape == furnitureShape(rooms[n[1]])
  IN IF n[3] = 0
     THEN IF lookupStand(w.table, Offset(NeedPos(n), shape.stand)) # 0 THEN "Furniture in use"
          ELSE IF ~SomeoneFree(w, shape.status) THEN "No colonist available"
          ELSE IF findOpenOutputTile(w, rooms[n[1]]) = NoPos THEN "No output tile available"
          ELSE ""
     ELSE IF lookupDest(w.table, NeedSlot(n)) # 0 THEN "Destination reserved"
          ELSE IF ~SomeoneFree(w, "") THEN "No colonist available"
          ELSE IF Len(availableItems(w, furnitureInputPositions(rooms), shape.inputs[n[3]].type)) = 0
          THEN "No items available"
          ELSE ""

\* C13: a scheduler pass raises no error; for every production-ready fixture
\* and every empty input position it examines, either it creates one job
\* and no candidate, or it appends one candidate, with the reason of the
\* first check that fails, and no job; the candidates list holds nothing
\* else.
C13_JobOrDiagnostic ==
  PassRan =>
    /\ err = ""
    /\ \A n \in Needs :
         /\ Cardinality(JobsFor(n)) + Cardinality(EntriesFor(n)) = 1
         /\ FirstFailure(n) = "" => JobsFor(n) # {}
         /\ \A k \in EntriesFor(n) : candidates[k].status = FirstFailure(n)
    /\ \A k \in 1..Len(candidates) : \E n \in Needs : k \in EntriesFor(n)
    /\ \A i \in Jobs : table[i].id > PreSchedule.jobId => \E n \in Needs : i \in JobsFor(n)
    /\ \A i \in 1..Len(PreSchedule.table) : table[i] = PreSchedule.table[i]

\* a pass that created a job and recorded candidates with three different
\* reasons, after an earlier pass had recorded others
C13_Witness ==
  /\ PassRan
  /\ tickId > 2
  /\ \E i \in Jobs : table[i].id > PreSchedule.jobId
  /\ Cardinality({candidates[k].status : k \in 1..Len(candidates)}) >= 3

\* the fixtures that have pos as an input position
FixturesFedAt(pos) ==
  {rf \in Fixtures : \E i \in 1..Len(furnitureShape(rooms[rf[1]]).inputs) :
     pos = Offset(FixturePos(rf), furnitureShape(rooms[rf[1]]).inputs[i].pos)}

\* the items that rest on the ground on an input position of a fixture
SlotItems == {k \in 1..Len(items) : items[k].on = "ground" /\ FixturesFedAt(items[k].pos) # {}}

\* no job has an item that rests on an input position as its item
C14_NotSelected == \A k \in SlotItems : lookupItem(table, items[k].id) = 0

\* in this step the production of fixture rf is finished by the colonist
\* that stands on its stand
Finishes(rf) ==
  \E i \in Jobs :
    /\ table[i].type = "production"
    /\ table[i].room = rf[1]
    /\ table[i].furniture = FixturePos(rf)
    /\ colonists[table[i].colonist].pos = table[i].stand
    /\ table[i].timeCompleted # 0
    /\ tickId' >= table[i].timeCompleted
    /\ \A j \in DOMAIN table' : table'[j].id = table[i].id =>
         table'[j].timeCompleted = 0 /\ table'[j].item # 0

\* an item that rests on an input position stays where it is, unless the
\* production of the fixture of that position finishes, which destroys it
C14_StaysOrConsumed ==
  \A k \in SlotItems :
    \/ \E j \in DOMAIN items' : items'[j] = items[k]
    \/ /\ \A j \in DOMAIN items' : items'[j].id # items[k].id
       /\ \E rf \in FixturesFedAt(items[k].pos) : Finishes(rf)

\* C14: an item that rests on the ground on an input position of a fixture
\* is the item of no transport job and is picked up by no colonist; it
\* leaves its tile only by being destroyed when the production of that
\* fixture finishes.
C14_SlotItemsReserved == []C14_NotSelected /\ [][C14_StaysOrConsumed]_vars

\* an item rests on an input position while the pass has found no item of
\* its type for an empty input position of another fixture
C14_Witness ==
  /\ PassRan
  /\ \E k \in SlotItems, e \in 1..Len(candidates) :
       /\ candidates[e].status = "No items available"
       /\ furnitureShape(rooms[candidates[e].room]).inputs[candidates[e].input].type = items[k].type

HasJob(c) == lookupColonist(table, c) # 0

\* The production job without output that colonist c finished in its turn
\* of the last tick, as a set of at most one job: before the turn c stood
\* on the stand with the completion tick reached, and the job is gone.
FinishedBy(c) ==
  IF Len(turns) < c THEN {}
  ELSE {turns[c].table[i] : i \in {k \in 1..Len(turns[c].table) :
          /\ turns[c].table[k].colonist = c
          /\ turns[c].table[k].type = "production"
          /\ furnitureShape(rooms[turns[c].table[k].room]).output = ""
          /\ turns[c].colonists[c].path = <<>>
          /\ turns[c].colonists[c].pos = turns[c].table[k].stand
          /\ turns[c].table[k].timeCompleted # 0
          /\ tickId >= turns[c].table[k].timeCompleted
          /\ \A j \in Jobs : table[j].id # turns[c].table[k].id}}

\* colonist c walks with no job: only the completion of a production job
\* without output leaves a colonist like that
WalkingAway(c) == ~HasJob(c) /\ colonists[c].path # <<>>

Front(path) == SubSeq(path, 1, Len(path) - 1)

C15_KeepsPath ==
  \A c \in Colonists : \A job \in FinishedBy(c) :
    colonists[c].path = findPath(walkable, job.stand, job.dest).path

C15_KeepsWalking ==
  \A c \in Colonists : WalkingAway(c) =>
    /\ colonists'[c].pos = colonists[c].path[Len(colonists[c].path)]
    /\ colonists'[c].path = Front(colonists[c].path)

C15_PathUnlessJob ==
  \A c \in Colonists : \A job \in FinishedBy(c) :
    colonists[c].path = IF HasJob(c) THEN <<>> ELSE findPath(walkable, job.stand, job.dest).path

C15_WalksUnlessJob ==
  \A c \in Colonists : WalkingAway(c) =>
    /\ colonists'[c].pos = colonists[c].path[Len(colonists[c].path)]
    /\ colonists'[c].path = IF lookupColonist(table', c) # 0 THEN <<>> ELSE Front(colonists[c].path)

NotInTable == "Deleting job not in table"

C16_Delete(id) ==
  CallDeleteJob(id) =>
    IF \E i \in Jobs : table[i].id = id
    THEN /\ err' = ""
         /\ Len(table') = Len(table) - 1
         /\ table' = SelectSeq(table, LAMBDA row : row.id # id)
    ELSE /\ err' = NotInTable
         /\ table' = table

\* C16: deleteJob of a job that is in the table removes that row and no
\* other; deleteJob of a job that is not in the table (one deleted before)
\* throws and leaves the rows of the table as they are.
C16_DeleteOnce == [][\A id \in 1..MaxJobs : C16_Delete(id)]_vars

\* a job that had been deleted was deleted again, with other jobs in the
\* table
C16_Witness ==
  /\ err = NotInTable
  /\ Len(table) >= 2
  /\ jobId > Len(table)

\* the production jobs of shapes with a status whose production is not
\* finished yet (a finished production has put its output into job.item)
StatusJobs ==
  {i \in Jobs : /\ table[i].type = "production"
                /\ furnitureShape(rooms[table[i].room]).status # ""
                /\ table[i].item = 0}

\* C17: a production job of a shape with a status is bound only to a
\* colonist that has that status when the job is created, and the colonist
\* keeps the status until the production of the job is finished.
C17_StatusHeld ==
  /\ \A i \in StatusJobs :
       /\ colonists[table[i].colonist].status[furnitureShape(rooms[table[i].room]).status]
       /\ (PassRan /\ table[i].id > PreSchedule.jobId) =>
            PreSchedule.colonists[table[i].colonist].status[furnitureShape(rooms[table[i].room]).status]
  /\ \A n \in 1..Len(turns) : \A i \in 1..Len(turns[n].table) :
       LET job == turns[n].table[i]
           status == furnitureShape(turns[n].rooms[job.room]).status
       IN (job.type = "production" /\ status # "" /\ job.item = 0) =>
            turns[n].colonists[job.colonist].status[status]

\* the pass has bound a job of a shape with a status to a colonist that has
\* it, passing over an idle colonist earlier in the roster that has not
C17_Witness ==
  /\ PassRan
  /\ \E i \in StatusJobs, c \in Colonists :
       /\ table[i].id > PreSchedule.jobId
       /\ c < table[i].colonist
       /\ lookupColonist(PreSchedule.table, c) = 0
       /\ ~PreSchedule.colonists[c].status[furnitureShape(rooms[table[i].room]).status]

\* the turn of colonist c of the tick that ends in the next state: the
\* world after it is the world before it with one Colonist.simulate() of c
\* (and the status of the tick set for the colonist whose turn is next),
\* the clock is the new one, and no job was created and no candidate
\* recorded since the tick began
C18_Turn(c) ==
  /\ turns'[c + 1] = IF c < Len(colonists)
                     THEN applyStatus(colonistSimulate(turns'[c], c), c + 1, statusToSet(tickId + 1))
                     ELSE colonistSimulate(turns'[c], c)
  /\ turns'[c + 1].tickId = tickId + 1
  /\ turns'[c + 1].jobId = jobId
  /\ turns'[c + 1].candidates = candidates
  /\ \A i \in 1..Len(turns'[c + 1].table) : \E j \in 1..Len(table) : turns'[c + 1].table[i].id = table[j].id

C18_TickOrder ==
  /\ tickId' = tickId + 1
  /\ Len(turns') \in 1..(Len(colonists) + 1)
  /\ turns'[1] = applyStatus([World EXCEPT !.tickId = tickId + 1], 1, statusToSet(tickId + 1))
  /\ \A c \in 1..Len(colonists) : c < Len(turns') => C18_Turn(c)
  /\ Len(turns') = Len(colonists) + 1 => World' = jobsSimulate(turns'[Len(colonists) + 1])
  /\ Len(turns') <= Len(colonists) =>
       /\ err' # ""
       /\ World' = colonistSimulate(turns'[Len(turns')], Len(turns'))

\* C18: a tick is: the clock goes up by one, then every colonist takes one
\* turn in roster order, then jobs.simulate() runs once; nothing is
\* scheduled between two turns of a tick.
C18_TickSequence == [][C18_TickOrder]_vars

\* a tick in which both colonists did something in their turns, one after
\* the other, and the pass after them created a job
C18_Witness ==
  /\ Len(turns) = 3
  /\ turns[2].colonists[1] # turns[1].colonists[1]
  /\ turns[3].colonists[2] # turns[2].colonists[2]
  /\ jobId > turns[3].jobId

\* the jobs the pass of the last tick created
Created == {i \in Jobs : PassRan /\ table[i].id > PreSchedule.jobId}

\* the table at the moment the pass created job i: ids are handed out in
\* increasing order and the pass deletes nothing
TableBefore(i) == SelectSeq(table, LAMBDA job : job.id < table[i].id)

\* colonist c could be given job i at the moment the pass created it
Qualifies(c, i) ==
  /\ lookupColonist(TableBefore(i), c) = 0
  /\ \/ table[i].type = "transport"
     \/ furnitureShape(rooms[table[i].room]).status = ""
     \/ PreSchedule.colonists[c].status[furnitureShape(rooms[table[i].room]).status]

\* C19: the colonist of a job the scheduler creates is the first one in
\* roster order that has no job at that moment and, for a production job
\* of a shape with a status, has that status.
C19_EarliestQualified ==
  \A i \in Created :
    /\ Qualifies(table[i].colonist, i)
    /\ \A c \in Colonists : c < table[i].colonist => ~Qualifies(c, i)

\* a pass created a job when both colonists qualified for it
C19_Witness ==
  /\ Len(colonists) = 2
  /\ \E i \in Created : Qualifies(1, i) /\ Qualifies(2, i)

\* the call threw and left every item and every inventory as it was
C20_Refused ==
  /\ err' # ""
  /\ items' = items
  /\ colonists' = colonists

\* itemDrop of an item the colonist does not carry (by the item's position
\* or by the colonist's inventory), or on a tile where an item lies
C20_Drop ==
  \A c \in Colonists, id \in ItemIds :
    (/\ \/ ~(itemLoc(items, id).on = "colonist" /\ itemLoc(items, id).c = c)
        \/ colonists[c].inventory # id
        \/ findItemOnTile(items, colonists[c].pos) # 0
     /\ CallItemDrop(c, id)) => C20_Refused

\* itemPickUp by a colonist that holds something, or of an item that lies on
\* another tile than the colonist's
C20_PickUp ==
  \A c \in Colonists, id \in ItemIds :
    (/\ \/ colonists[c].inventory # 0
        \/ itemLoc(items, id).on = "ground" /\ itemLoc(items, id).pos # colonists[c].pos
     /\ CallItemPickUp(c, id)) => C20_Refused

\* itemDestroy of an item that does not lie on the ground
C20_Destroy ==
  \A id \in ItemIds :
    (itemLoc(items, id).on # "ground" /\ CallItemDestroy(id)) => C20_Refused

\* C20: itemDrop, itemPickUp and itemDestroy called with a violated
\* precondition throw and change no item's position and no colonist's
\* inventory.
C20_RefusedUnchanged == [][C20_Drop /\ C20_PickUp /\ C20_Destroy]_vars

\* itemDrop has just thrown for a colonist that carries an item and stands
\* on a tile where another item lies
C20_Witness ==
  /\ err = "Can't drop item because tile occupied"
  /\ \E c \in Colonists :
       /\ colonists[c].inventory # 0
       /\ itemLoc(items, colonists[c].inventory).c = c
       /\ findItemOnTile(items, colonists[c].pos) # 0

\* what findPath returns for the colonist's position and a goal, when it
\* returns: start is not in it, goal is in it once, as its first element
\* (the one pop() takes last); from its last element to its first it goes
\* from a neighbour of start to goal one 4-directional step at a time, over
\* walkable tiles; for goal = start it is empty
C21_Returned(start, goal, path) ==
  /\ \A i \in 1..Len(path) : path[i] # start /\ path[i] \in walkable
  /\ {i \in 1..Len(path) : path[i] = goal} = (IF start = goal THEN {} ELSE {1})
  /\ path # <<>> => Adjacent(start, path[Len(path)])
  /\ \A i \in 1..(Len(path) - 1) : Adjacent(path[i + 1], path[i])
  /\ start = goal => path = <<>>

\* C21: the sequence findPath(start, goal) returns never contains start,
\* contains goal once, at index 0, is a chain of 4-adjacent walkable tiles
\* from a neighbour of start (last element) to goal (first element), and is
\* empty when start equals goal.
C21_PathShape ==
  \A goal \in Grid :
    findPath(walkable, colonists[1].pos, goal).ok =>
      C21_Returned(colonists[1].pos, goal, findPath(walkable, colonists[1].pos, goal).path)

\* the colonist has just been given a path of three or more tiles that
\* turns a corner
C21_Witness ==
  /\ err = ""
  /\ Len(colonists[1].path) >= 3
  /\ colonists[1].path = findPath(walkable, colonists[1].pos, colonists[1].path[1]).path
  /\ colonists[1].path[1][1] # colonists[1].pos[1]
  /\ colonists[1].path[1][2] # colonists[1].pos[2]

\* the turns of the last tick that began with a path
Walked == {c \in Colonists : c < Len(turns) /\ turns[c].colonists[c].path # <<>>}

\* C22: a turn of a colonist that begins with a non-empty path moves the
\* colonist to the last element of the path and takes that element off the
\* path; the job table with every job's fields, every item, the colonist's
\* inventory and status and all else stay as they were, with or without a
\* job.
C22_StepOnly ==
  \A c \in Walked :
    LET before == turns[c]
        after == turns[c + 1]
        path == before.colonists[c].path
    IN /\ after.colonists[c].pos = path[Len(path)]
       /\ after.colonists[c].path = SubSeq(path, 1, Len(path) - 1)
       /\ after.colonists[c].inventory = before.colonists[c].inventory
       /\ after.colonists[c].status = before.colonists[c].status
       /\ after.table = before.table
       /\ after.items = before.items
       /\ after.err = ""
       /\ after.jobId = before.jobId /\ after.nextItemId = before.nextItemId
       /\ after.candidates = before.candidates /\ after.rooms = before.rooms
       /\ \A d \in Colonists \ {c} :
            /\ after.colonists[d].pos = before.colonists[d].pos
            /\ after.colonists[d].path = before.colonists[d].path
            /\ after.colonists[d].inventory = before.colonists[d].inventory

\* in one tick a colonist without a job and a colonist with a job both took
\* a step
C22_Witness ==
  \E c \in Walked, d \in Walked :
    /\ lookupColonist(turns[c].table, c) = 0
    /\ lookupColonist(turns[d].table, d) # 0

\* in world w colonist c has a production job, holds nothing, has no path
\* and stands on the stand of the job
Standing(w, c) ==
  /\ lookupColonist(w.table, c) # 0
  /\ w.table[lookupColonist(w.table, c)].type = "production"
  /\ w.colonists[c].inventory = 0
  /\ w.colonists[c].path = <<>>
  /\ w.colonists[c].pos = w.table[lookupColonist(w.table, c)].stand

\* the turns of the last tick that began with the colonist standing so
Stood == {c \in Colonists : c < Len(turns) /\ Standing(turns[c], c)}

JobIn(w, c) == w.table[lookupColonist(w.table, c)]

Duration(w, c) == furnitureShape(w.rooms[JobIn(w, c).room]).ticks

\* the first such turn sets the completion tick and nothing else
C23_Start ==
  \A c \in Stood :
    JobIn(turns[c], c).timeCompleted = 0 =>
      /\ turns[c + 1].table =
           [turns[c].table EXCEPT ![lookupColonist(turns[c].table, c)].timeCompleted =
              turns[c].tickId + Duration(turns[c], c)]
      /\ turns[c + 1].items = turns[c].items
      /\ turns[c + 1].colonists[c] = turns[c].colonists[c]

\* a turn before the completion tick changes nothing
C23_Wait ==
  \A c \in Stood :
    (JobIn(turns[c], c).timeCompleted # 0 /\ turns[c].tickId < JobIn(turns[c], c).timeCompleted) =>
      /\ turns[c + 1].table = turns[c].table
      /\ turns[c + 1].items = turns[c].items
      /\ turns[c + 1].colonists[c] = turns[c].colonists[c]

\* the first turn at or after the completion tick is at the completion
\* tick, and it completes the production: the job is deleted or has its
\* completion tick cleared
C23_Complete ==
  \A c \in Stood :
    (JobIn(turns[c], c).timeCompleted # 0 /\ turns[c].tickId >= JobIn(turns[c], c).timeCompleted) =>
      /\ turns[c].tickId = JobIn(turns[c], c).timeCompleted
      /\ \A i \in 1..Len(turns[c + 1].table) :
           turns[c + 1].table[i].id = JobIn(turns[c], c).id => turns[c + 1].table[i].timeCompleted = 0

\* between two ticks a job with a completion tick is less than its shape's
\* duration old, and its colonist stands on the stand with no path
C23_Window ==
  \A i \in Jobs :
    table[i].timeCompleted # 0 =>
      /\ table[i].type = "production"
      /\ tickId < table[i].timeCompleted
      /\ tickId >= table[i].timeCompleted - furnitureShape(rooms[table[i].room]).ticks
      /\ Standing(World, table[i].colonist)

\* C23: the first turn in which the colonist of a production job stands on
\* the stand with an empty path sets the completion tick to the tick plus
\* the shape's duration; the production completes in the first turn with
\* tick >= completion tick, which is duration ticks later; in the turns in
\* between the colonist stays on the stand and no job, item or status
\* changes.
C23_ProductionTiming == C23_Start /\ C23_Wait /\ C23_Complete /\ C23_Window

\* a colonist has just completed, at the completion tick, the production of
\* a shape with inputs and an output
C23_Witness ==
  \E c \in Stood :
    /\ JobIn(turns[c], c).timeCompleted = turns[c].tickId
    /\ furnitureShape(turns[c].rooms[JobIn(turns[c], c).room]).output # ""
    /\ furnitureShape(turns[c].rooms[JobIn(turns[c], c).room]).inputs # <<>>
    /\ colonists[c].inventory # 0

\* the turns of the last tick in which a production completed
Completed ==
  {c \in Stood : /\ JobIn(turns[c], c).timeCompleted # 0
                 /\ turns[c].tickId >= JobIn(turns[c], c).timeCompleted}

ShapeOf(w, c) == furnitureShape(w.rooms[JobIn(w, c).room])

\* the input positions of the fixture of c's job
SlotsOf(w, c) ==
  {Offset(JobIn(w, c).furniture, ShapeOf(w, c).inputs[k].pos) : k \in 1..Len(ShapeOf(w, c).inputs)}

\* the items of w that do not lie on a tile of slots, in order
Kept(w, slots) == SelectSeq(w.items, LAMBDA item : ~(item.on = "ground" /\ item.pos \in slots))

\* the item a completed production with an output creates
Output(w, c) ==
  [id |-> w.nextItemId + 1, type |-> ShapeOf(w, c).output, on |-> "colonist", pos |-> NoPos, c |-> c]

C24_Completion(c) ==
  LET before == turns[c]
      after == turns[c + 1]
      shape == ShapeOf(before, c)
  IN /\ after.err = ""
     /\ \A p \in SlotsOf(before, c) : findItemOnTile(before.items, p) # 0
     /\ after.items = IF shape.output = "" THEN Kept(before, SlotsOf(before, c))
                      ELSE Append(Kept(before, SlotsOf(before, c)), Output(before, c))
     /\ shape.output # "" =>
          /\ after.colonists[c].inventory = Output(before, c).id
          /\ lookupColonist(after.table, c) # 0
          /\ JobIn(after, c).id = JobIn(before, c).id
          /\ JobIn(after, c).item = Output(before, c).id
          /\ \A i \in 1..Len(after.table) :
               after.table[i].item = Output(before, c).id => after.table[i].colonist = c
     /\ shape.output = "" => after.colonists[c].inventory = 0
     /\ after.colonists[c].status =
          IF shape.status = "" THEN before.colonists[c].status
          ELSE [before.colonists[c].status EXCEPT ![shape.status] = FALSE]
     /\ \A d \in Colonists \ {c} :
          /\ after.colonists[d].inventory = before.colonists[d].inventory
          /\ after.colonists[d].status =
               IF d = c + 1 THEN applyStatus(before, d, statusToSet(before.tickId)).colonists[d].status
               ELSE before.colonists[d].status

\* C24: the turn in which a production completes removes from map.items
\* exactly the ground items on the input positions of the fixture, clears
\* the shape's status for the producing colonist only, and for a shape with
\* an output creates exactly one item of that type, carried by the colonist
\* and referenced by the job; no other item and no other colonist's status
\* changes.
C24_CompletionEffects == \A c \in Completed : C24_Completion(c)

\* a colonist has just eaten a meal at a table while another colonist is
\* hungry and an item lies elsewhere
C24_Witness ==
  \E c \in Completed :
    /\ ShapeOf(turns[c], c).status = "hungry"
    /\ ShapeOf(turns[c], c).inputs # <<>>
    /\ Len(Kept(turns[c], SlotsOf(turns[c], c))) > 0
    /\ \E d \in Colonists \ {c} : turns[c + 1].colonists[d].status.hungry

\* the colonists the pass of the last tick bound to a job
NewlyAssigned == {table[i].colonist : i \in Created}

\* C25: a scheduler pass removes no job and changes no field of a job that
\* was in the table before it; it changes no item, no colonist's position,
\* inventory or status; all it does is append jobs, replace the candidates
\* list and empty the path of every colonist it binds to a new job.
C25_PassFrame ==
  PassRan =>
    /\ err = ""
    /\ Len(table) >= Len(PreSchedule.table)
    /\ SubSeq(table, 1, Len(PreSchedule.table)) = PreSchedule.table
    /\ \A i \in (Len(PreSchedule.table) + 1)..Len(table) : table[i].id > PreSchedule.jobId
    /\ jobId = PreSchedule.jobId + Cardinality(Created)
    /\ items = PreSchedule.items
    /\ nextItemId = PreSchedule.nextItemId
    /\ rooms = PreSchedule.rooms /\ walkable = PreSchedule.walkable /\ tickId = PreSchedule.tickId
    /\ \A c \in Colonists :
         /\ colonists[c].pos = PreSchedule.colonists[c].pos
         /\ colonists[c].inventory = PreSchedule.colonists[c].inventory
         /\ colonists[c].status = PreSchedule.colonists[c].status
         /\ colonists[c].path = IF c \in NewlyAssigned THEN <<>> ELSE PreSchedule.colonists[c].path

\* a pass bound a colonist that was walking to a new job and emptied its
\* path, while the other colonist, walking for a job it had, kept its path
C25_Witness ==
  /\ PassRan
  /\ \E c \in NewlyAssigned, d \in Colonists \ NewlyAssigned :
       /\ PreSchedule.colonists[c].path # <<>>
       /\ lookupColonist(PreSchedule.table, d) # 0
       /\ colonists[d].path # <<>>

\* the production jobs the pass of the last tick created
CreatedProduction == {i \in Created : table[i].type = "production"}

\* the item of map.items with the id, as the pass saw it
ItemBefore(id) == PreSchedule.items[itemIndex(PreSchedule.items, id, 1)]

\* C26: when the scheduler creates a production job for a fixture, every
\* input position of the fixture holds a ground item of the type that input
\* asks for.
C26_InputsOfRightType ==
  \A i \in CreatedProduction :
    \A k \in 1..Len(furnitureShape(rooms[table[i].room]).inputs) :
      LET input == furnitureShape(rooms[table[i].room]).inputs[k]
          id == findItemOnTile(PreSchedule.items, Offset(table[i].furniture, input.pos))
      IN /\ id # 0
         /\ ItemBefore(id).on = "ground"
         /\ ItemBefore(id).type = input.type

\* a pass created a production job for a fixture with an input while an
\* item of another type than the input's was on the map
C26_Witness ==
  \E i \in CreatedProduction :
    /\ furnitureShape(rooms[table[i].room]).inputs # <<>>
    /\ \E k \in 1..Len(PreSchedule.items) :
         PreSchedule.items[k].type # furnitureShape(rooms[table[i].room]).inputs[1].type

\* the transport jobs the pass of the last tick created
CreatedTransport == {i \in Created : table[i].type = "transport"}

\* the type the input position a transport job delivers to asks for
WantedType(i) ==
  LET inputs == furnitureShape(rooms[table[i].room]).inputs
  IN inputs[CHOOSE k \in 1..Len(inputs) : Offset(table[i].furniture, inputs[k].pos) = table[i].dest].type

\* between two ticks no item is referenced by two jobs, and a transport job
\* the last pass created is for an item of the wanted type that no job
\* referenced when it was created
C27_OneJobPerItem ==
  /\ \A i, j \in Jobs : (i # j /\ table[i].item # 0) => table[i].item # table[j].item
  /\ \A i \in CreatedTransport :
       /\ table[i].item # 0
       /\ itemIndex(PreSchedule.items, table[i].item, 1) # 0
       /\ ItemBefore(table[i].item).type = WantedType(i)
       /\ lookupItem(TableBefore(i), table[i].item) = 0

\* a production job that has its product keeps it as long as it is in the
\* table
C27_ProductKept ==
  \A i \in Jobs :
    (table[i].type = "production" /\ table[i].item # 0) =>
      \A j \in 1..Len(table') : table'[j].id = table[i].id => table'[j].item = table[i].item

\* C27: at every tick boundary no item is referenced by more than one job:
\* a transport job is created only for an item of the type its input
\* position asks for that no job references, and the item a production job
\* produced stays referenced by the job until the job is deleted.
C27_ItemInOneJob == []C27_OneJobPerItem /\ [][C27_ProductKept]_vars

\* a pass created a transport job for an item while another item of the
\* same type was referenced by a job
C27_Witness ==
  \E i \in CreatedTransport :
    \E k \in 1..Len(PreSchedule.items) :
      /\ PreSchedule.items[k].type = WantedType(i)
      /\ PreSchedule.items[k].id # table[i].item
      /\ lookupItem(TableBefore(i), PreSchedule.items[k].id) # 0

\* the statuses of colonist c as its turn of the tick begins are those it
\* had before the tick, with hungry set in the ticks 150, 300 and 450 of
\* the day and sleepy set in tick 550 of the day
C28_ClockSets(c) ==
  /\ turns'[c].colonists[c].status.hungry =
       (colonists[c].status.hungry \/ (tickId' % 600) \in {150, 300, 450})
  /\ turns'[c].colonists[c].status.sleepy =
       (colonists[c].status.sleepy \/ (tickId' % 600) = 550)

\* C28: with a day of 600 ticks and hour = 24 * (tick mod 600) / 600, the
\* clock sets hungry on every colonist exactly in the ticks with tick mod
\* 600 in {150, 300, 450} and sleepy exactly in the ticks with tick mod 600
\* = 550; in every other tick it changes no status.
C28_ClockEvents ==
  [][/\ TICKS_PER_DAY = 600
     /\ (statusToSet(tickId') = "eat") <=> ((tickId' % 600) \in {150, 300, 450})
     /\ (statusToSet(tickId') = "sleep") <=> ((tickId' % 600) = 550)
     /\ Len(turns') >= Len(colonists)
     /\ \A c \in Colonists : C28_ClockSets(c)]_vars

\* on the second day the clock has just made every one of two colonists
\* hungry, and one of them is sleepy from the day before
C28_Witness ==
  /\ tickId = 750
  /\ Len(colonists) = 2
  /\ \A c \in Colonists : c <= Len(turns) /\ turns[c].colonists[c].status.hungry
  /\ \E c \in Colonists : colonists[c].status.sleepy

\* the turns of the last tick that deleted the job of the colonist
Ended ==
  {c \in Colonists : /\ c < Len(turns)
                     /\ lookupColonist(turns[c].table, c) # 0
                     /\ \A i \in 1..Len(turns[c + 1].table) :
                          turns[c + 1].table[i].id # JobIn(turns[c], c).id}

\* the job deleted was a production job of a shape with an output
EndedWithProduct ==
  {c \in Ended : JobIn(turns[c], c).type = "production" /\ ShapeOf(turns[c], c).output # ""}

\* when a production job of a shape with an output is deleted, its product
\* lies on the ground on the job's destination and the colonist holds
\* nothing
C29_ProductAtDest ==
  \A c \in EndedWithProduct :
    /\ JobIn(turns[c], c).item # 0
    /\ itemLoc(turns[c + 1].items, JobIn(turns[c], c).item) =
         [on |-> "ground", pos |-> JobIn(turns[c], c).dest, c |-> 0]
    /\ itemLoc(turns[c + 1].items, JobIn(turns[c], c).item).pos = turns[c + 1].colonists[c].pos
    /\ turns[c + 1].colonists[c].inventory = 0

\* colonist c has a job, with time left to walk, to produce and to walk
Busy(c) ==
  /\ c \in Colonists
  /\ lookupColonist(table, c) # 0
  /\ tickId + 2 * Horizon +
       (IF JobIn(World, c).type = "production" THEN ShapeOf(World, c).ticks ELSE 0) <= MaxTick

\* colonist c has a production job of a shape with an output
Producing(c) ==
  /\ Busy(c)
  /\ JobIn(World, c).type = "production"
  /\ ShapeOf(World, c).output # ""

\* C29: every production job of a shape with an output is deleted in the
\* end, with its product on the ground on the job's destination and the
\* colonist's inventory empty; no job stays in the table forever.
C29_JobsEnd ==
  /\ []C29_ProductAtDest
  /\ \A c \in 1..MaxColonists : Producing(c) ~> (c \in EndedWithProduct)
  /\ \A c \in 1..MaxColonists : Busy(c) ~> (c \in Ended)

\* a colonist has just dropped the meal it cooked on the destination of its
\* job, and the job is gone
C29_Witness ==
  \E c \in EndedWithProduct :
    /\ ShapeOf(turns[c], c).output = "meal"
    /\ lookupColonist(table, c) = 0 \/ JobIn(World, c).id > JobIn(turns[c], c).id
    /\ \E k \in 1..Len(items) :
         items[k].type = "meal" /\ items[k].on = "ground" /\ items[k].pos = JobIn(turns[c], c).dest

\* tile p may take a footprint tile of a new piece of furniture of room r:
\* it is inside the room, on no footprint tile of the furniture the room
\* has, no job's destination, and no item lies on it
C30_Free(r, p) ==
  /\ positionInRoom(rooms[r], p)
  /\ \A f \in 1..Len(rooms[r].furniture) :
       p \notin positionsOccupiedByFurniture(rooms[r], rooms[r].furniture[f])
  /\ \A i \in Jobs : table[i].dest # p
  /\ \A k \in 1..Len(items) : ~(items[k].on = "ground" /\ items[k].pos = p)

\* a furniture list changes only by one new piece at its end, in an
\* unlocked room, with every tile of its footprint free
C30_AddedOnlyIfFree ==
  \A r \in 1..Len(rooms) :
    rooms'[r].furniture # rooms[r].furniture =>
      /\ Len(rooms'[r].furniture) = Len(rooms[r].furniture) + 1
      /\ SubSeq(rooms'[r].furniture, 1, Len(rooms[r].furniture)) = rooms[r].furniture
      /\ rooms[r].unlocked
      /\ \A p \in positionsOccupiedByFurniture(rooms[r], rooms'[r].furniture[Len(rooms'[r].furniture)]) :
           C30_Free(r, p)

\* a click on a tile of a room where a footprint tile is not free, or the
\* room is locked, leaves the furniture lists as they are
C30_RefusedUnchanged ==
  \A pos \in ClickTiles, r \in 1..Len(rooms) :
    (/\ positionInRoom(rooms[r], pos)
     /\ \/ ~rooms[r].unlocked
        \/ \E p \in positionsOccupiedByFurniture(rooms[r], pos) : ~C30_Free(r, p)
     /\ FurnitureClick(pos)) => rooms' = rooms

\* no two jobs have the same destination and no two production jobs the
\* same stand
C30_NoClash ==
  \A i, j \in Jobs :
    i # j => /\ table[i].dest # table[j].dest
             /\ table[i].stand = NoPos \/ table[i].stand # table[j].stand

\* C30: a click that places furniture, at any point between ticks, adds a
\* piece to a room only if the room is unlocked and every tile of the new
\* footprint lies inside the room, on no footprint tile of the room's
\* furniture, is no job's destination and holds no ground item; otherwise
\* the furniture list is unchanged.  Destinations stay unique and stands
\* exclusive when such clicks interleave with ticks.
C30_PlacementGuarded ==
  /\ [][C30_AddedOnlyIfFree /\ C30_RefusedUnchanged]_vars
  /\ []C30_NoClash

\* a field was placed by a click, and a job for it is in the table next to
\* the job of the first field, whose production began earlier
C30_Witness ==
  /\ Len(rooms[1].furniture) = 2
  /\ \E i, j \in Jobs :
       /\ table[i].room = 1 /\ table[i].furniture = rooms[1].furniture[2]
       /\ table[j].room = 1 /\ table[j].furniture = rooms[1].furniture[1]
       /\ table[j].id < table[i].id
       /\ table[j].timeCompleted # 0 /\ table[j].timeCompleted < table[i].timeCompleted

\* C31: a second scheduler pass on the world as the first pass left it adds
\* no job: the job table, the job counter and the colonists after two
\* consecutive passes are those after one, and the second pass does not
\* throw.
C31_SecondPassAddsNothing ==
  Scheduled =>
    /\ SecondPass.table = table
    /\ SecondPass.jobId = jobId
    /\ SecondPass.colonists = colonists
    /\ SecondPass.items = items
    /\ SecondPass.err = ""

\* the first pass gave a furniture whose stand was free a job and left a
\* colonist without one: the second pass turns that furniture down as in
\* use, and turns down again a furniture the first pass had turned down
C31_Witness ==
  /\ Scheduled
  /\ Len(table) > Len(PreSchedule.table)
  /\ \E c \in Colonists : lookupColonist(table, c) = 0
  /\ \E rf \in Fixtures :
       /\ lookupStand(PreSchedule.table, FixtureStand(rf)) = 0
       /\ HasCandidate(SecondPass.candidates, rf[1], FixturePos(rf), "Furniture in use")
  /\ \E k \in 1..Len(candidates) :
       /\ candidates[k].status = "No colonist available"
       /\ HasCandidate(SecondPass.candidates, candidates[k].room, candidates[k].furniture, "No colonist available")

\* the colonists whose turn of the last tick began with a transport job and
\* an empty inventory
FetchingAtTurn ==
  {c \in 1..Len(turns) :
     /\ c <= Len(turns[c].colonists)
     /\ lookupColonist(turns[c].table, c) # 0
     /\ turns[c].table[lookupColonist(turns[c].table, c)].type = "transport"
     /\ turns[c].colonists[c].inventory = 0}

\* C32: with furniture clicks and room unlocks between the ticks, at every
\* turn of a colonist that has a transport job and carries nothing the job's
\* item lies on the ground, at tick boundaries as well, and "item should be
\* on ground" is never thrown.
C32_ItemOnGround ==
  /\ err # "item should be on ground"
  /\ \A c \in FetchingAtTurn :
       isItemPosOnGround(itemLoc(turns[c].items, turns[c].table[lookupColonist(turns[c].table, c)].item))
  /\ \A i \in Jobs :
       (table[i].type = "transport" /\ colonists[table[i].colonist].inventory = 0) =>
         isItemPosOnGround(itemLoc(items, table[i].item))

\* after a click placed a piece of furniture, a colonist began a turn at the
\* item of its transport job, which lay on the ground, and picked it up
C32_Witness ==
  /\ TotalFurniture > 2
  /\ \E c \in FetchingAtTurn :
       LET job == turns[c].table[lookupColonist(turns[c].table, c)]
       IN /\ turns[c].colonists[c].path = <<>>
          /\ itemLoc(turns[c].items, job.item).pos = turns[c].colonists[c].pos
          /\ colonists[c].inventory = job.item

\* the colonists whose turn of the last tick began with a job, an empty path
\* and an item in the inventory
HoldingAtTurn ==
  {c \in 1..Len(turns) :
     /\ c <= Len(turns[c].colonists)
     /\ lookupColonist(turns[c].table, c) # 0
     /\ turns[c].colonists[c].path = <<>>
     /\ turns[c].colonists[c].inventory # 0}

\* the job of colonist c as its turn of the last tick began
JobAtTurn(c) == turns[c].table[lookupColonist(turns[c].table, c)]

\* C33: a colonist that begins a turn with a job, an empty path and an item
\* in its inventory stands on the destination of its job, whether the job is
\* a transport or a production job, and neither "Should be at dest by now"
\* is ever thrown.
C33_AtDest ==
  /\ err \notin {"1 Should be at dest by now", "2 Should be at dest by now"}
  /\ \A c \in HoldingAtTurn : turns[c].colonists[c].pos = JobAtTurn(c).dest

\* in one tick a colonist with a transport job and a colonist with a
\* production job both began their turn holding an item with nowhere to go,
\* and both dropped it
C33_Witness ==
  \E c, d \in HoldingAtTurn :
    /\ JobAtTurn(c).type = "transport"
    /\ JobAtTurn(d).type = "production"
    /\ colonists[c].inventory = 0 /\ colonists[d].inventory = 0
    /\ itemLoc(items, JobAtTurn(c).item).pos = JobAtTurn(c).dest
    /\ itemLoc(items, JobAtTurn(d).item).pos = JobAtTurn(d).dest

\* C34: at every tick boundary a colonist without a job has an empty
\* inventory, and a colonist with an item in its inventory has a job whose
\* item is the item it holds.
C34_InventoryHasJob ==
  \A c \in Colonists :
    /\ lookupColonist(table, c) = 0 => colonists[c].inventory = 0
    /\ colonists[c].inventory # 0 =>
         /\ lookupColonist(table, c) # 0
         /\ table[lookupColonist(table, c)].item = colonists[c].inventory

\* a colonist that dropped its item in the last tick is left without a job,
\* while another one holds the product of its production job
C34_Witness ==
  \E c, d \in Colonists :
    /\ c \in HoldingAtTurn
    /\ lookupColonist(table, c) = 0
    /\ colonists[c].inventory = 0
    /\ colonists[d].inventory # 0
    /\ table[lookupColonist(table, d)].type = "production"
    /\ table[lookupColonist(table, d)].item = colonists[d].inventory

\* the production jobs of the table that have not completed
Unfinished == {i \in Jobs : table[i].type = "production" /\ table[i].item = 0}

\* the input positions of the fixture of job i
SlotsOfJob(i) ==
  {Offset(table[i].furniture, furnitureShape(rooms[table[i].room]).inputs[k].pos) :
     k \in 1..Len(furnitureShape(rooms[table[i].room]).inputs)}

\* C35: from the creation of a production job to its completion every input
\* position of its fixture holds a ground item: at every tick boundary, and
\* at the start of the turn in which the production completes, so that
\* itemDestroy is never called with a missing item.
C35_InputsStay ==
  /\ err # "TypeError: item is null"
  /\ \A i \in Unfinished : \A p \in SlotsOfJob(i) : findItemOnTile(items, p) # 0
  /\ \A c \in Completed :
       \A k \in 1..Len(ShapeOf(turns[c], c).inputs) :
         isItemPosOnGround(itemLoc(turns[c].items,
           findItemOnTile(turns[c].items, Offset(JobIn(turns[c], c).furniture, ShapeOf(turns[c], c).inputs[k].pos))))

\* a production with an input completed in the last tick: the item that lay
\* on the input position was destroyed without an exception
C35_Witness ==
  \E c \in Completed :
    /\ Len(ShapeOf(turns[c], c).inputs) > 0
    /\ err = ""
    /\ \A p \in SlotsOf(turns[c], c) :
         /\ findItemOnTile(turns[c].items, p) # 0
         /\ itemIndex(items, findItemOnTile(turns[c].items, p), 1) = 0

\* C36: a colonist that drops an item in its turn (it begins the turn with
\* a job, an empty path and an item) stands on a tile that holds no ground
\* item; at every tick boundary no ground item lies on the destination of a
\* job; and itemDrop never throws "tile occupied".
C36_DropTileFree ==
  /\ err # "Can't drop item because tile occupied"
  /\ \A c \in HoldingAtTurn : findItemOnTile(turns[c].items, turns[c].colonists[c].pos) = 0
  /\ \A i \in Jobs : findItemOnTile(items, table[i].dest) = 0

\* a colonist dropped the product of its production job in the last tick
\* while another item lay on the tile of the room where the search for an
\* open output tile begins, which the search had passed over
C36_Witness ==
  \E c \in HoldingAtTurn :
    /\ JobAtTurn(c).type = "production"
    /\ itemLoc(items, JobAtTurn(c).item).pos = JobAtTurn(c).dest
    /\ \E k \in 1..Len(turns[c].items) :
         /\ turns[c].items[k].on = "ground"
         /\ turns[c].items[k].pos = Pos(rooms[JobAtTurn(c).room].rect.right - 1, rooms[JobAtTurn(c).room].rect.bottom - 1)

\* every colonist is where it was or on a walkable tile next to it
C37_Step ==
  \A c \in Colonists :
    \/ colonists'[c].pos = colonists[c].pos
    \/ /\ Adjacent(colonists[c].pos, colonists'[c].pos)
       /\ colonists'[c].pos \in walkable'

\* C37: in every tick the position of each colonist stays the same or
\* changes to a walkable tile that is 4-adjacent to the position it had, also
\* in a tick that follows a scheduler pass that emptied its path.
C37_OneTilePerTick == [][C37_Step]_vars

\* a colonist without a job took a step of its walk in the last tick and the
\* scheduler pass of that tick then gave it a job and discarded what was
\* left of its path
C37_Witness ==
  \E c \in Walked :
    /\ Scheduled
    /\ lookupColonist(turns[c].table, c) = 0
    /\ Adjacent(turns[c].colonists[c].pos, colonists[c].pos)
    /\ PreSchedule.colonists[c].path # <<>>
    /\ lookupColonist(table, c) # 0
    /\ colonists[c].path = <<>>

\* the last tick in which a transport job may still be in the table
Deadline(id) == born[id].tick + born[id].d1 + born[id].d2 + 3

\* a transport job is in the table only before its deadline, and never when
\* an exception has stopped the simulation
C38_InTime ==
  \A i \in Jobs :
    table[i].type = "transport" => err = "" /\ tickId < Deadline(table[i].id)

\* a transport job leaves the table with its item on its destination
C38_Delivered ==
  \A i \in Jobs :
    (table[i].type = "transport" /\ \A j \in DOMAIN table' : table'[j].id # table[i].id) =>
      /\ isItemPosOnGround(itemLoc(items', table[i].item))
      /\ itemLoc(items', table[i].item).pos = table[i].dest

\* C38: a transport job created by the scheduler pass of tick T, with d1
\* the least number of steps from the colonist to the item and d2 from the
\* item to the destination at that moment, is in the table at the end of no
\* tick from T + d1 + d2 + 3 on, and it leaves the table with the item lying
\* on its destination.
C38_TransportDeadline == []C38_InTime /\ [][C38_Delivered]_vars

\* a transport job whose colonist had to walk to the item was deleted in the
\* last tick, the last one its deadline allows, with the item on the
\* destination
C38_Witness ==
  /\ Len(turns) > 0
  /\ \E i \in 1..Len(turns[1].table) :
       LET job == turns[1].table[i]
       IN /\ job.type = "transport"
          /\ \A j \in Jobs : table[j].id # job.id
          /\ born[job.id].d1 > 0 /\ born[job.id].d2 > 0
          /\ tickId = Deadline(job.id)
          /\ itemLoc(items, job.item).pos = job.dest

\* between the calls of the item operations, a colonist's inventory is an
\* item of map.items exactly when that item's position is the colonist
C39_Matches ==
  \A c \in Colonists : \A i \in 1..Len(items) :
    (colonists[c].inventory = items[i].id) <=> (items[i].on = "colonist" /\ items[i].c = c)

\* itemPickUp of an item that another colonist carries throws
C39_PickUpRefused ==
  \A c \in Colonists, id \in ItemIds :
    (/\ itemLoc(items, id).on = "colonist" /\ itemLoc(items, id).c # c
     /\ CallItemPickUp(c, id)) => err' # ""

\* C39: after any sequence of itemCreate, itemPickUp, itemDrop and
\* itemDestroy calls a colonist's inventory is an item of map.items if and
\* only if the item's position is that colonist, and itemPickUp never
\* succeeds on an item that another colonist carries.
C39_InventoryMatchesLocation == []C39_Matches /\ [][C39_PickUpRefused]_vars

\* itemPickUp has returned without an exception for an item that another
\* colonist carried: both colonists' inventories are that item
C39_Witness ==
  /\ err = ""
  /\ \E c, d \in Colonists :
       /\ c # d
       /\ colonists[c].inventory # 0
       /\ colonists[c].inventory = colonists[d].inventory
       /\ itemLoc(items, colonists[c].inventory).c = c

\* every room of map.rooms that has furniture has a furniture shape, and
\* jobs.simulate has not failed reading the shape of a room without one
C40_Shaped ==
  /\ ~ShapelessFurniture(rooms)
  /\ err # "TypeError: furnitureShape is null"

\* a click adds furniture only to a room whose type has a furniture shape
C40_AddedOnlyWithShape ==
  \A r \in 1..Len(rooms) :
    rooms'[r].furniture # rooms[r].furniture => furnitureShape(rooms[r]).hasShape

\* C40: no furniture is ever added to a room whose type has no furniture
\* shape, so every piece of furniture of map.rooms has a shape and the
\* scheduler pass never fails by reading the shape of such a room.
C40_NoShapelessFurniture == []C40_Shaped /\ [][C40_AddedOnlyWithShape]_vars

\* a click has added a piece of furniture to the 'open' room and the next
\* tick ended in the TypeError of jobs.simulate
C40_Witness ==
  /\ err = "TypeError: furnitureShape is null"
  /\ \E r \in 1..Len(rooms) : rooms[r].type = "open" /\ Len(rooms[r].furniture) > 0
  /\ tickId > 2

====
